---- MODULE Spec2Model ----
(***************************************************************************)
(* State-machine model of the watchtower-api Room subsystem:               *)
(*   - the GameRoom Durable Object (src/src/durable-objects/GameRoom.ts,   *)
(*     the variant with playerStates / gameState / host migration), and    *)
(*   - the rooms router that addresses it (src/src/routes/rooms.ts).       *)
(*                                                                         *)
(* One record per Durable Object instance holds the in-memory fields of    *)
(* the class, its transactional storage, the sockets the platform keeps    *)
(* for it (hibernation API) and the frames / HTTP response produced by the *)
(* handler that ran last.                                                  *)
(***************************************************************************)
EXTENDS Integers, Sequences, FiniteSets, TLC

VARIABLES actors, now, last, steps, ids, games, kv, out, revoked, track,
          sessions, creates, sync

vars ==
  <<actors, now, last, steps, ids, games, kv, out, revoked, track, sessions,
    creates, sync>>

(***************************************************************************)
(* Bounds of the model.                                                    *)
(***************************************************************************)
MaxSockets == 2      \* sockets open at the same time on one actor
MaxTime    == 1      \* Date.now() ranges over 0..MaxTime
MaxState   == 1      \* opaque state payloads are 1..MaxState
MaxSteps   == 5      \* events (clock advances included) in one behaviour

(***************************************************************************)
(* Input universes.  playerIds are client-asserted strings; "constructor"  *)
(* is one that names a property every plain JavaScript object inherits.    *)
(* IdOrder lists the ids in lexicographic (code unit) order.  The variable *)
(* ids is the set of playerIds the clients of a behaviour assert and games *)
(* the set of gameIds their API keys resolve to: ordinary names and one    *)
(* tenant under Spec, any name and one tenant under SpecAnyId, two tenants *)
(* under SpecTenants.                                                      *)
(***************************************************************************)
IdOrder     == <<"alice", "bob", "carol", "constructor">>
PlayerIds   == {IdOrder[i] : i \in DOMAIN IdOrder}
OrdinaryIds == {"alice", "bob", "carol"}
AnyIds      == {"alice", "constructor"}
TenantIds   == {"alice", "bob"}
GameIds     == {"gameA", "gameB"}
OneGame     == {"gameA"}
States    == 1..MaxState
Times     == 0..MaxTime

\* Codes a client may present; GeneratedCodes are those generateRoomCode emits.
GeneratedCodes == {<<"H", "Q", "K", "3">>}
RequestCodes   == {<<"H", "Q", "K", "3">>, <<"h", "Q", "k", "3">>}

\* JavaScript values
Null        == [isNull |-> TRUE]
Undefined   == "undefined#"
EmptyObject == 0

\* Names found on Object.prototype: obj[k] is truthy for them on any plain object.
ObjectPrototypeKeys == {"constructor"}

(***************************************************************************)
(* Plain-object helpers.  `players` is kept as the sequence of its own     *)
(* properties in insertion order (Object.keys / Object.values order for    *)
(* non-numeric keys); playerStates is a function on its own keys.          *)
(***************************************************************************)
Keys(players) == {players[i].id : i \in DOMAIN players}

\* Truthiness of players[k]: own entries are objects (truthy); a missing own
\* key falls through to Object.prototype.
Lookup(players, k) == k \in Keys(players) \/ k \in ObjectPrototypeKeys

\* players[k] = {id: k, joinedAt: t} for a k that is not an own key
SetPlayer(players, k, t) == Append(players, [id |-> k, joinedAt |-> t])

\* delete players[k]
DeletePlayer(players, k) == SelectSeq(players, LAMBDA e : e.id # k)

\* playerStates[k] = v
SetState(ps, k, v) == [x \in (DOMAIN ps) \cup {k} |-> IF x = k THEN v ELSE ps[x]]

\* Variant of DeleteState that keeps the departed player's state
DeleteStateKeep(ps, k) == ps

\* delete playerStates[k]
DeleteState(ps, k) == [x \in (DOMAIN ps) \ {k} |-> ps[x]]

NoStates == [x \in {} |-> 0]

\* Array.prototype.sort((a, b) => a.joinedAt - b.joinedAt): a stable sort
InsertByJoinedAt(sorted, e) ==
  LET pos == Cardinality({i \in DOMAIN sorted : sorted[i].joinedAt <= e.joinedAt})
  IN  SubSeq(sorted, 1, pos) \o <<e>> \o SubSeq(sorted, pos + 1, Len(sorted))

RECURSIVE SortByJoinedAt(_)
SortByJoinedAt(s) ==
  IF s = <<>> THEN <<>>
  ELSE InsertByJoinedAt(SortByJoinedAt(SubSeq(s, 1, Len(s) - 1)), s[Len(s)])

(***************************************************************************)
(* Socket helpers (state.getWebSockets / getTags).  A.sockets maps every   *)
(* open server-side socket handle to its tag.                              *)
(***************************************************************************)
RECURSIVE SetToSeq(_)
SetToSeq(S) ==
  IF S = {} THEN <<>>
  ELSE LET m == CHOOSE x \in S : \A y \in S : x <= y
       IN  <<m>> \o SetToSeq(S \ {m})

getWebSockets(A) == SetToSeq(DOMAIN A.sockets)

getWebSocketsOf(A, playerId) ==
  SetToSeq({w \in DOMAIN A.sockets : A.sockets[w] = playerId})

\* broadcast(message, excludePlayerId): one frame per open socket whose tag
\* differs from excludePlayerId, appended to the frames of this handler
RECURSIVE SendAll(_, _)
SendAll(wss, message) ==
  IF wss = <<>> THEN <<>>
  ELSE <<[ws |-> Head(wss), frame |-> message]>> \o SendAll(Tail(wss), message)

broadcast(A, message, excludePlayerId) ==
  [A EXCEPT !.sent = @ \o SendAll(
      SelectSeq(getWebSockets(A), LAMBDA w : A.sockets[w] # excludePlayerId),
      message)]

\* Variant of sendTo that delivers to every open socket
sendToEveryone(A, playerId, message) ==
  [A EXCEPT !.sent = @ \o SendAll(getWebSockets(A), message)]

sendTo(A, playerId, message) ==
  [A EXCEPT !.sent = @ \o SendAll(getWebSocketsOf(A, playerId), message)]

\* Variant of saveState that never writes the snapshot
saveStateNever(A) == A

\* saveState(): storage.put('roomState', roomState) when a room is held
saveState(A) ==
  IF A.roomState # Null THEN [A EXCEPT !.storage = A.roomState] ELSE A

(***************************************************************************)
(* GameRoom                                                                *)
(***************************************************************************)
\* Field initialisers of the class, before the constructor body
FreshInstance(storage, sockets) ==
  [roomState          |-> Null,
   playerStateDirty   |-> FALSE,
   broadcastInterval  |-> FALSE,
   storage            |-> storage,
   sockets            |-> sockets,
   sent               |-> <<>>,
   resp               |-> 0,
   body               |-> Null]

startBroadcastInterval(A) == [A EXCEPT !.broadcastInterval = TRUE]

stopBroadcastInterval(A) == [A EXCEPT !.broadcastInterval = FALSE]

\* constructor: restore the snapshot, then start the interval
\* Variant of the constructor that does not restore the stored snapshot
constructorForgets(storage, sockets) ==
  startBroadcastInterval(FreshInstance(storage, sockets))

constructor(storage, sockets) ==
  LET A == FreshInstance(storage, sockets)
  IN  startBroadcastInterval(
        IF storage # Null THEN [A EXCEPT !.roomState = storage] ELSE A)

\* Every handler starts with no frames sent and no response
Begin(A) == [A EXCEPT !.sent = <<>>, !.resp = 0, !.body = Null]

Respond(A, status) == [A EXCEPT !.resp = status]

\* Response.json(body): status 200 with a JSON body
RespondJson(A, body) == [A EXCEPT !.resp = 200, !.body = body]

\* Variant of handleCreate without the `if (this.roomState)` refusal
handleCreateOverwrite(A0, gameId, hostId, t) ==
  LET A == Begin(A0)
  IN  Respond(
        saveState([A EXCEPT !.roomState =
          [gameId       |-> gameId,
           hostId       |-> hostId,
           createdAt    |-> t,
           players      |-> <<[id |-> hostId, joinedAt |-> t]>>,
           playerStates |-> NoStates,
           gameState    |-> EmptyObject]]),
        200)

handleCreate(A0, gameId, hostId, t) ==
  LET A == Begin(A0)
  IN  IF A.roomState # Null THEN Respond(A, 400)
      ELSE Respond(
             saveState([A EXCEPT !.roomState =
               [gameId       |-> gameId,
                hostId       |-> hostId,
                createdAt    |-> t,
                players      |-> <<[id |-> hostId, joinedAt |-> t]>>,
                playerStates |-> NoStates,
                gameState    |-> EmptyObject]]),
             200)

handleInfo(A0) ==
  LET A == Begin(A0)
  IN  IF A.roomState = Null THEN Respond(A, 404)
      ELSE RespondJson(A,
             [gameId      |-> A.roomState.gameId,
              hostId      |-> A.roomState.hostId,
              createdAt   |-> A.roomState.createdAt,
              playerCount |-> Len(A.roomState.players),
              players     |-> A.roomState.players])

\* Body of the join response, built from the room after the optional insert
JoinBody(A) ==
  [success |-> TRUE,
   gameId  |-> A.roomState.gameId,
   hostId  |-> A.roomState.hostId,
   players |-> A.roomState.players]

handleJoin(A0, playerId, t) ==
  LET A == Begin(A0)
  IN  IF A.roomState = Null THEN Respond(A, 404)
      ELSE IF ~Lookup(A.roomState.players, playerId)
           THEN LET B == saveState([A EXCEPT !.roomState.players =
                                       SetPlayer(@, playerId, t)])
                    C == broadcast(B,
                           [type |-> "player_joined", playerId |-> playerId,
                            playerCount |-> Len(B.roomState.players)],
                           playerId)
                IN  RespondJson(C, JoinBody(C))
           ELSE RespondJson(A, JoinBody(A))

\* handleWebSocket: `server` is the handle of the socket that is accepted
handleWebSocket(A0, playerId, server, t) ==
  LET A == Begin(A0)
  IN  IF A.roomState = Null THEN Respond(A, 404)
      ELSE
        LET B == [A EXCEPT !.sockets =
                    [w \in (DOMAIN A.sockets) \cup {server} |->
                       IF w = server THEN playerId ELSE A.sockets[w]]]
            C == IF ~Lookup(B.roomState.players, playerId)
                 THEN saveState([B EXCEPT !.roomState.players =
                                   SetPlayer(@, playerId, t)])
                 ELSE B
            D == [C EXCEPT !.sent = @ \o
                    <<[ws |-> server,
                       frame |-> [type         |-> "connected",
                                  playerId     |-> playerId,
                                  gameId       |-> C.roomState.gameId,
                                  hostId       |-> C.roomState.hostId,
                                  players      |-> C.roomState.players,
                                  playerCount  |-> Len(C.roomState.players),
                                  playerStates |-> C.roomState.playerStates,
                                  gameState    |-> C.roomState.gameState]]>>]
        IN  Respond(
              broadcast(D,
                [type |-> "player_joined", playerId |-> playerId,
                 playerCount |-> Len(D.roomState.players)],
                playerId),
              101)

\* Variant of isHost that lets every sender through
isHostAnySender(A, playerId) == TRUE

\* `playerId === this.roomState.hostId`, the gate of game_state / transfer_host
isHost(A, playerId) == playerId = A.roomState.hostId

\* webSocketMessage(ws, message)
webSocketMessage(A0, ws, data, t) ==
  LET A == Begin(A0)
      playerId == A.sockets[ws]
  IN  IF A.roomState = Null THEN A
      ELSE CASE data.type = "player_state" ->
                  broadcast(
                    [A EXCEPT !.roomState.playerStates =
                                 SetState(@, playerId, data.state),
                              !.playerStateDirty = TRUE],
                    [type |-> "player_state_update", playerId |-> playerId,
                     state |-> data.state],
                    playerId)
             [] data.type = "game_state" ->
                  IF isHost(A, playerId)
                  THEN broadcast(
                         saveState([A EXCEPT !.roomState.gameState = data.state]),
                         [type |-> "game_state_sync", state |-> data.state],
                         Undefined)
                  ELSE A
             [] data.type = "transfer_host" ->
                  IF isHost(A, playerId)
                     /\ Lookup(A.roomState.players, data.newHostId)
                  THEN broadcast(
                         saveState([A EXCEPT !.roomState.hostId = data.newHostId]),
                         [type |-> "host_changed", hostId |-> data.newHostId],
                         Undefined)
                  ELSE A
             [] data.type = "broadcast" ->
                  broadcast(A,
                    [type |-> "message", from |-> playerId,
                     data |-> data.data],
                    IF data.excludeSelf THEN playerId ELSE Undefined)
             [] data.type = "send" ->
                  sendTo(A, data.to,
                    [type |-> "message", from |-> playerId,
                     data |-> data.data])
             [] data.type = "ping" ->
                  [A EXCEPT !.sent = @ \o
                     <<[ws |-> ws, frame |-> [type |-> "pong", timestamp |-> t]]>>]
             [] OTHER -> A     \* unknown type, or JSON.parse threw

\* Variant of hostMigration that promotes the new host without telling anyone
hostMigrationSilent(B, wasHost, remainingPlayers) ==
  IF wasHost /\ Len(remainingPlayers) > 0
  THEN [B EXCEPT !.roomState.hostId = SortByJoinedAt(remainingPlayers)[1].id]
  ELSE B

\* Host migration of webSocketClose: the first of the remaining players after
\* the sort becomes host and host_changed goes to every open socket
hostMigration(B, wasHost, remainingPlayers) ==
  IF wasHost /\ Len(remainingPlayers) > 0
  THEN LET newHost == SortByJoinedAt(remainingPlayers)[1].id
       IN  broadcast([B EXCEPT !.roomState.hostId = newHost],
                     [type |-> "host_changed", hostId |-> newHost],
                     Undefined)
  ELSE B

\* webSocketClose(ws, code, reason); the platform no longer lists ws as open
webSocketClose(A0, ws) ==
  LET A1 == Begin(A0)
      playerId == A1.sockets[ws]
      A == [A1 EXCEPT !.sockets = [w \in (DOMAIN A1.sockets) \ {ws} |-> A1.sockets[w]]]
  IN  IF A.roomState = Null THEN A
      ELSE
        LET wasHost == playerId = A.roomState.hostId
            B == [A EXCEPT !.roomState.players = DeletePlayer(@, playerId),
                           !.roomState.playerStates = DeleteState(@, playerId)]
            remainingPlayers == B.roomState.players
        IN  IF Len(remainingPlayers) = 0
            THEN [stopBroadcastInterval(B) EXCEPT !.storage = Null,
                                                  !.roomState = Null]
            ELSE
              LET C == hostMigration(B, wasHost, remainingPlayers)
              IN  broadcast(saveState(C),
                    [type |-> "player_left", playerId |-> playerId,
                     playerCount |-> Len(remainingPlayers)],
                    Undefined)

\* Variant of tick that leaves the dirty flag set
tickKeepsDirty(A0) ==
  LET A == Begin(A0)
  IN  IF A.playerStateDirty /\ A.roomState # Null
      THEN broadcast(A,
             [type |-> "players_sync", players |-> A.roomState.playerStates],
             Undefined)
      ELSE A

\* The setInterval callback of startBroadcastInterval
tick(A0) ==
  LET A == Begin(A0)
  IN  IF A.playerStateDirty /\ A.roomState # Null
      THEN [broadcast(A,
              [type |-> "players_sync", players |-> A.roomState.playerStates],
              Undefined)
            EXCEPT !.playerStateDirty = FALSE]
      ELSE A

(***************************************************************************)
(* GameRoom, earlier variant of the class (first half of GameRoom.ts): no  *)
(* playerStates, gameState, timer or host migration.  handleInfo,          *)
(* handleJoin, broadcast, sendTo and saveState read the same in both       *)
(* variants.                                                               *)
(***************************************************************************)
\* constructor: restore the snapshot
constructorEarlier(storage, sockets) ==
  LET A == FreshInstance(storage, sockets)
  IN  IF storage # Null THEN [A EXCEPT !.roomState = storage] ELSE A

handleCreateEarlier(A0, gameId, hostId, t) ==
  LET A == Begin(A0)
  IN  IF A.roomState # Null THEN Respond(A, 400)
      ELSE Respond(
             saveState([A EXCEPT !.roomState =
               [gameId    |-> gameId,
                hostId    |-> hostId,
                createdAt |-> t,
                players   |-> <<[id |-> hostId, joinedAt |-> t]>>]]),
             200)

handleWebSocketEarlier(A0, playerId, server, t) ==
  LET A == Begin(A0)
  IN  IF A.roomState = Null THEN Respond(A, 404)
      ELSE
        LET B == [A EXCEPT !.sockets =
                    [w \in (DOMAIN A.sockets) \cup {server} |->
                       IF w = server THEN playerId ELSE A.sockets[w]]]
            C == IF ~Lookup(B.roomState.players, playerId)
                 THEN saveState([B EXCEPT !.roomState.players =
                                   SetPlayer(@, playerId, t)])
                 ELSE B
            D == [C EXCEPT !.sent = @ \o
                    <<[ws |-> server,
                       frame |-> [type     |-> "connected",
                                  playerId |-> playerId,
                                  gameId   |-> C.roomState.gameId,
                                  hostId   |-> C.roomState.hostId,
                                  players  |-> C.roomState.players]]>>]
        IN  Respond(
              broadcast(D,
                [type |-> "player_joined", playerId |-> playerId,
                 playerCount |-> Len(D.roomState.players)],
                playerId),
              101)

\* webSocketMessage(ws, message) with its default branch
webSocketMessageEarlier(A0, ws, data, t) ==
  LET A == Begin(A0)
      playerId == A.sockets[ws]
  IN  IF A.roomState = Null THEN A
      ELSE CASE data.type = "malformed" -> A     \* JSON.parse threw
             [] data.type = "broadcast" ->
                  broadcast(A,
                    [type |-> "message", from |-> playerId,
                     data |-> data.data],
                    IF data.excludeSelf THEN playerId ELSE Undefined)
             [] data.type = "send" ->
                  sendTo(A, data.to,
                    [type |-> "message", from |-> playerId,
                     data |-> data.data])
             [] data.type = "ping" ->
                  [A EXCEPT !.sent = @ \o
                     <<[ws |-> ws, frame |-> [type |-> "pong", timestamp |-> t]]>>]
             [] OTHER ->                          \* default: any other type
                  broadcast(A,
                    [type |-> "message", from |-> playerId, data |-> data],
                    playerId)

webSocketCloseEarlier(A0, ws) ==
  LET A1 == Begin(A0)
      playerId == A1.sockets[ws]
      A == [A1 EXCEPT !.sockets = [w \in (DOMAIN A1.sockets) \ {ws} |-> A1.sockets[w]]]
  IN  IF A.roomState = Null THEN A
      ELSE
        LET B == saveState([A EXCEPT !.roomState.players = DeletePlayer(@, playerId)])
            C == broadcast(B,
                   [type |-> "player_left", playerId |-> playerId,
                    playerCount |-> Len(B.roomState.players)],
                   Undefined)
        IN  IF Len(C.roomState.players) = 0
            THEN [C EXCEPT !.storage = Null, !.roomState = Null]
            ELSE C

(***************************************************************************)
(* Strings the middleware takes apart are sequences of characters; a value *)
(* that may be undefined (an absent header or query parameter) carries a   *)
(* flag.                                                                   *)
(***************************************************************************)
Undef == [defined |-> FALSE, s |-> <<>>]

Str(s) == [defined |-> TRUE, s |-> s]

\* JavaScript truthiness of a string-or-undefined: `!v` is ~Truthy(v)
Truthy(v) == v.defined /\ v.s # <<>>

\* a || b
OrElse(a, b) == IF Truthy(a) THEN a ELSE b

\* String.prototype.startsWith
startsWith(s, prefix) ==
  Len(s) >= Len(prefix) /\ SubSeq(s, 1, Len(prefix)) = prefix

\* String.prototype.slice(start)
slice(s, start) == SubSeq(s, start + 1, Len(s))

BearerScheme == <<"B", "e", "a", "r", "e", "r", " ">>

KeyPrefix == <<"w", "t", "_">>

\* The prefix of registry entries in the SAVES namespace
ApikeyNs == <<"a", "p", "i", "k", "e", "y", ":">>

(***************************************************************************)
(* The SAVES key/value namespace: names to JSON texts                      *)
(***************************************************************************)
EmptyKV == [x \in {} |-> 0]

\* JSON.stringify / the 'json' read type; the text is kept as the value in a
\* wrapper
JSONstringify(v) == [json |-> v]

JSONparse(text) == text.json

\* SAVES.get(name, 'json'): null when the name is absent
kvGet(store, name) ==
  IF name \in DOMAIN store THEN JSONparse(store[name]) ELSE Null

\* SAVES.put(name, text)
kvPut(store, name, text) ==
  [x \in (DOMAIN store) \cup {name} |-> IF x = name THEN text ELSE store[x]]

\* Variant of kvDelete that removes nothing
kvDeleteNothing(store, name) == store

\* SAVES.delete(name)
kvDelete(store, name) == [x \in (DOMAIN store) \ {name} |-> store[x]]

(***************************************************************************)
(* middleware/auth.ts                                                      *)
(***************************************************************************)
\* A response of the middleware itself: the downstream handler does not run
Refuse(status, error) ==
  [next |-> FALSE, status |-> status, error |-> error,
   gameId |-> <<>>, projectId |-> "", playerId |-> Undef, apiKey |-> Undef]

\* Variant of lookupKey that reads the registry under a name that does not
\* depend on the key presented
lookupKeyAnyEntry(store, apiKey) ==
  IF DOMAIN store = {} THEN Null
  ELSE JSONparse(store[CHOOSE name \in DOMAIN store : TRUE])

\* SAVES.get(`apikey:${apiKey}`, 'json')
lookupKey(store, apiKey) == kvGet(store, ApikeyNs \o apiKey)

\* authMiddleware(c, next): a refusal, or the context set for the handler
authMiddleware(store, req) ==
  LET authHeader == req.authorization
      playerId == OrElse(req.xPlayerId, req.queryPlayerId)
      apiKey == IF authHeader.defined /\ startsWith(authHeader.s, BearerScheme)
                THEN Str(slice(authHeader.s, 7))
                ELSE req.queryApiKey
  IN  IF ~Truthy(playerId)
      THEN Refuse(400, "X-Player-ID header required")
      ELSE IF ~Truthy(apiKey)
      THEN Refuse(401, "Authorization header or apiKey query param required")
      ELSE IF ~startsWith(apiKey.s, KeyPrefix)
      THEN Refuse(401, "Invalid API key format")
      ELSE LET keyData == lookupKey(store, apiKey.s)
           IN  IF keyData = Null
               THEN Refuse(401, "Invalid API key")
               ELSE [next |-> TRUE, status |-> 0, error |-> "",
                     gameId |-> keyData.gameId,
                     projectId |-> keyData.projectId,
                     playerId |-> playerId, apiKey |-> apiKey]

\* The deployment's INTERNAL_SECRET
INTERNAL_SECRET == <<"s", "3", "c">>

\* internalAuthMiddleware: 0 when the request may proceed, else the status
internalAuthMiddleware(authHeader) ==
  IF ~(authHeader.defined /\ startsWith(authHeader.s, BearerScheme)) THEN 401
  ELSE IF slice(authHeader.s, 7) # INTERNAL_SECRET THEN 401
  ELSE 0

(***************************************************************************)
(* routes/internal.ts: the key registry                                    *)
(***************************************************************************)
\* POST /internal/keys
postKeys(store, authHeader, body, t) ==
  IF internalAuthMiddleware(authHeader) # 0
  THEN [store |-> store, status |-> internalAuthMiddleware(authHeader)]
  ELSE IF ~(body.apiKey.defined /\ startsWith(body.apiKey.s, KeyPrefix))
  THEN [store |-> store, status |-> 400]
  ELSE IF body.gameId = <<>> \/ body.projectId = ""
  THEN [store |-> store, status |-> 400]
  ELSE [store |-> kvPut(store, ApikeyNs \o body.apiKey.s,
                        JSONstringify([gameId    |-> body.gameId,
                                       projectId |-> body.projectId,
                                       createdAt |-> t])),
        status |-> 200]

\* DELETE /internal/keys/:apiKey
deleteKeys(store, authHeader, apiKey) ==
  IF internalAuthMiddleware(authHeader) # 0
  THEN [store |-> store, status |-> internalAuthMiddleware(authHeader)]
  ELSE IF ~startsWith(apiKey, KeyPrefix)
  THEN [store |-> store, status |-> 400]
  ELSE [store |-> kvDelete(store, ApikeyNs \o apiKey), status |-> 200]

\* GET /internal/keys/:apiKey
getKeys(store, authHeader, apiKey) ==
  IF internalAuthMiddleware(authHeader) # 0
  THEN [store |-> store, status |-> internalAuthMiddleware(authHeader)]
  ELSE [store |-> store, status |-> 200]

(***************************************************************************)
(* routes/saves.ts: handlers behind authMiddleware; gameId and playerId    *)
(* are those the middleware put in the context.  A handler yields the      *)
(* namespace after it, the HTTP status and the JSON body.                  *)
(***************************************************************************)
\* `${gameId}:${playerId}:${saveKey}`
buildKey(gameId, playerId, saveKey) ==
  gameId \o <<":">> \o playerId \o <<":">> \o saveKey

\* The positions at which pattern occurs in s
Occurrences(s, pattern) ==
  {i \in 1..(Len(s) - Len(pattern) + 1) :
     SubSeq(s, i, i + Len(pattern) - 1) = pattern}

\* String.prototype.replace(pattern, ''): the first occurrence is removed
replaceFirst(s, pattern) ==
  IF Occurrences(s, pattern) = {} THEN s
  ELSE LET i == CHOOSE j \in Occurrences(s, pattern) :
                  \A k \in Occurrences(s, pattern) : j <= k
       IN  SubSeq(s, 1, i - 1) \o SubSeq(s, i + Len(pattern), Len(s))

\* Variant of savesPrefix that scopes by the game only
savesPrefixOfGame(gameId, playerId) == gameId \o <<":">>

\* `${gameId}:${playerId}:`
savesPrefix(gameId, playerId) == gameId \o <<":">> \o playerId \o <<":">>

\* GET /v1/saves: the save keys of the names that start with the prefix
savesList(store, gameId, playerId) ==
  LET prefix == savesPrefix(gameId, playerId)
      names  == {name \in DOMAIN store : startsWith(name, prefix)}
  IN  [store |-> store, status |-> 200,
       body |-> [keys |-> {replaceFirst(name, prefix) : name \in names}]]

\* GET /v1/saves/:key
savesGet(store, gameId, playerId, saveKey) ==
  LET data == kvGet(store, buildKey(gameId, playerId, saveKey))
  IN  IF data = Null
      THEN [store |-> store, status |-> 404,
            body |-> [error |-> "Save not found"]]
      ELSE [store |-> store, status |-> 200,
            body |-> [key |-> saveKey, data |-> data]]

\* Variant of savesPost that keeps an entry that exists
savesPostOnce(store, gameId, playerId, saveKey, text) ==
  IF ~text.valid
  THEN [store |-> store, status |-> 400,
        body |-> [error |-> "Invalid JSON body"]]
  ELSE IF buildKey(gameId, playerId, saveKey) \in DOMAIN store
  THEN [store |-> store, status |-> 200,
        body |-> [success |-> TRUE, key |-> saveKey]]
  ELSE [store |-> kvPut(store, buildKey(gameId, playerId, saveKey),
                        JSONstringify(text.json)),
        status |-> 200,
        body |-> [success |-> TRUE, key |-> saveKey]]

\* POST /v1/saves/:key; `text` is the request body: c.req.json() throws on
\* text that is not JSON
savesPost(store, gameId, playerId, saveKey, text) ==
  IF ~text.valid
  THEN [store |-> store, status |-> 400,
        body |-> [error |-> "Invalid JSON body"]]
  ELSE [store |-> kvPut(store, buildKey(gameId, playerId, saveKey),
                        JSONstringify(text.json)),
        status |-> 200,
        body |-> [success |-> TRUE, key |-> saveKey]]

\* DELETE /v1/saves/:key
savesDelete(store, gameId, playerId, saveKey) ==
  [store |-> kvDelete(store, buildKey(gameId, playerId, saveKey)),
   status |-> 200,
   body |-> [success |-> TRUE]]

(***************************************************************************)
(* routes/stats.ts: POST /v1/stats/track.  The handler awaits every read   *)
(* and write of the namespace, so requests in flight interleave between    *)
(* them: each request has a position (pc) and the values it holds in its   *)
(* local variables.                                                        *)
(***************************************************************************)
\* Requests in flight together, and requests in a behaviour
MaxInFlight == 2

MaxTracks == 3

TrackSlots == 1..MaxInFlight

TrackPlayers == {<<"a">>, <<"b">>}

TrackGame == <<"g">>

TrackEvents == {"session_start", "session_end"}

STATS_KEY_PREFIX == <<"s", "t", "a", "t", "s", ":">>

Digit(n) == <<"0", "1", "2", "3", "4", "5", "6", "7", "8", "9">>[n + 1]

\* new Date().toISOString().split('T')[0]; a tick of the clock is a day of
\* January 2026
isoDate(t) == <<"2", "0", "2", "6", "-", "0", "1", "-", "0", Digit(t + 1)>>

\* new Date().toISOString().slice(0, 7)
isoMonth(t) == SubSeq(isoDate(t), 1, 7)

statsKey(gameId) == STATS_KEY_PREFIX \o gameId

playerKey(gameId, playerId) ==
  STATS_KEY_PREFIX \o gameId \o <<":", "p", "l", "a", "y", "e", "r", ":">>
    \o playerId

dailyKey(gameId, t) ==
  STATS_KEY_PREFIX \o gameId \o <<":", "d", "a", "i", "l", "y", ":">>
    \o isoDate(t)

monthlyKey(gameId, t) ==
  STATS_KEY_PREFIX \o gameId \o <<":", "m", "o", "n", "t", "h", "l", "y", ":">>
    \o isoMonth(t)

\* { online: 0, today: 0, monthly: 0, total: 0, rooms: 0, inRooms: 0 };
\* updatedAt is assigned before the record is stored
ZeroStats ==
  [online |-> 0, today |-> 0, monthly |-> 0, total |-> 0, rooms |-> 0,
   inRooms |-> 0, updatedAt |-> 0]

\* await SAVES.get(name, 'json') || []
getOrEmpty(store, name) ==
  IF name \in DOMAIN store THEN kvGet(store, name) ELSE <<>>

\* Array.prototype.includes
includes(array, x) == \E i \in 1..Len(array) : array[i] = x

\* Math.max(0, n)
max0(n) == IF n > 0 THEN n ELSE 0

\* A request slot with no request in it
Idle ==
  [pc |-> "idle", event |-> "", playerId |-> <<>>, stats |-> ZeroStats,
   dailyPlayers |-> <<>>, monthlyPlayers |-> <<>>, playerData |-> Null]

NoTracks == [i \in TrackSlots |-> Idle]

\* History: per player the sessions started and not ended, whether every
\* session_end so far followed a start of its player, and the players whose
\* session_start was answered
NoSessions ==
  [open |-> [p \in TrackPlayers |-> 0], paired |-> TRUE, started |-> {}]

\* session_start from `if (isNewPlayer)` to the write of the player record
toPlayer(r) ==
  [r EXCEPT !.stats.total = IF r.playerData = Null THEN @ + 1 ELSE @,
            !.pc = "putPlayer"]

\* session_start from `if (isNewThisMonth)` to the next write
toMonthly(r) ==
  IF ~includes(r.monthlyPlayers, r.playerId)
  THEN [r EXCEPT !.monthlyPlayers = Append(@, r.playerId),
                 !.stats.monthly = Len(r.monthlyPlayers) + 1,
                 !.pc = "putMonthly"]
  ELSE toPlayer(r)

\* The statement after the switch, up to the write of the counters
toStats(r, t) == [r EXCEPT !.stats.updatedAt = t, !.pc = "putStats"]

\* The switch on body.event, from its head to the next write
switchEvent(r, t) ==
  CASE r.event = "session_start" ->
         LET r1 == [r EXCEPT !.stats.online = @ + 1] IN
         IF ~includes(r.dailyPlayers, r.playerId)
         THEN [r1 EXCEPT !.dailyPlayers = Append(@, r.playerId),
                         !.stats.today = Len(r.dailyPlayers) + 1,
                         !.pc = "putDaily"]
         ELSE toMonthly(r1)
    [] r.event = "session_end" ->
         toStats([r EXCEPT !.stats.online = max0(@ - 1)], t)
    [] r.event = "room_join" ->
         toStats([r EXCEPT !.stats.inRooms = @ + 1], t)
    [] r.event = "room_leave" ->
         toStats([r EXCEPT !.stats.inRooms = max0(@ - 1)], t)
    [] r.event = "room_create" ->
         toStats([r EXCEPT !.stats.rooms = @ + 1], t)
    [] r.event = "room_close" ->
         toStats([r EXCEPT !.stats.rooms = max0(@ - 1)], t)
    [] OTHER -> toStats(r, t)

\* The player record session_start writes
playerRecord(playerData, t) ==
  [firstSeen |-> IF playerData = Null THEN t ELSE playerData.firstSeen,
   lastSeen  |-> t,
   sessions  |-> (IF playerData = Null THEN 0 ELSE playerData.sessions) + 1]

(***************************************************************************)
(* rooms router                                                            *)
(***************************************************************************)
\* The letters String.prototype.toUpperCase changes, and what it makes of them
LowerCase ==
  <<"a", "b", "c", "d", "e", "f", "g", "h", "i", "j", "k", "l", "m",
    "n", "o", "p", "q", "r", "s", "t", "u", "v", "w", "x", "y", "z">>

UpperCase ==
  <<"A", "B", "C", "D", "E", "F", "G", "H", "I", "J", "K", "L", "M",
    "N", "O", "P", "Q", "R", "S", "T", "U", "V", "W", "X", "Y", "Z">>

upperTable ==
  [ch \in {LowerCase[i] : i \in 1..Len(LowerCase)} |->
     UpperCase[CHOOSE i \in 1..Len(LowerCase) : LowerCase[i] = ch]]

upperChar(ch) == IF ch \in DOMAIN upperTable THEN upperTable[ch] ELSE ch

\* Variant of toUpperCase that leaves the code as it is
toUpperCaseNot(code) == code

\* String.prototype.toUpperCase
toUpperCase(code) == [i \in 1..Len(code) |-> upperChar(code[i])]

\* getRoomStub(env, roomCode): the name the actor is addressed by
getRoomStub(roomCode) == toUpperCase(roomCode)

ActorNames == {getRoomStub(c) : c \in RequestCodes \cup GeneratedCodes}

\* The frames a client may send, naming players among `names`
ClientMessages(names) ==
       [type : {"player_state", "game_state"}, state : States]
  \cup [type : {"transfer_host"}, newHostId : names]
  \cup [type : {"broadcast"}, excludeSelf : BOOLEAN, data : States]
  \cup [type : {"send"}, to : names, data : States]
  \cup [type : {"ping", "unknown", "malformed"}]

NoMsg == [type |-> "none"]

\* The event delivered last: the handler, the actor, the playerId the handler
\* acts for, the socket and the client frame (where the event has one), and
\* the HTTP status the router answers with (0 for socket and timer events)
Event(op, actor, playerId, ws, msg, status) ==
  [op |-> op, actor |-> actor, playerId |-> playerId, ws |-> ws, msg |-> msg,
   status |-> status]

\* The event of a request that named a room: the code as the client gave it
Routed(event, code) ==
  [op |-> event.op, actor |-> event.actor, playerId |-> event.playerId,
   ws |-> event.ws, msg |-> event.msg, status |-> event.status, code |-> code]

\* A public request as the auth gate sees it
NoReq ==
  [authorization |-> Undef, xPlayerId |-> Undef,
   queryPlayerId |-> Undef, queryApiKey |-> Undef]

\* The last event was no request to the auth gate
NoRequest == [req |-> NoReq, res |-> Refuse(0, "")]

\* No create request is inside handleCreate.  A slot holds the position of
\* one request in the handler, the body it carries and its response.
CreateSlots == 1..MaxInFlight

IdleCreate == [pc |-> "idle", gameId |-> "", hostId |-> "", resp |-> 0]

NoCreates == [i \in CreateSlots |-> IdleCreate]

(***************************************************************************)
(* SyncRoom (durable-objects/sync-room.ts).  A server socket is a handle,  *)
(* numbered in the order the pairs are made, so the insertion order of the *)
(* `players` map is the order of the handles.                              *)
(***************************************************************************)
MaxConnections == 3

SyncIds == {"alice", "bob"}

\* Frames a client may send: a state update, a ping, any other JSON
SyncMessages == [type : {"state"}, data : States]
           \cup [type : {"ping", "other"}, data : {EmptyObject}]

\* The object after construction.  players and playerStates are the two
\* maps of the class; `sent` holds the frames of the running handler;
\* `closes` the close(code, reason) the server called on a socket; `made` is
\* the number of socket pairs made; `listening` the sockets whose listeners
\* are still to receive a close event; `open` those with readyState OPEN.
NewSyncRoom ==
  [players      |-> [w \in {} |-> 0],
   playerStates |-> [p \in {} |-> 0],
   sent         |-> <<>>,
   closes       |-> [w \in {} |-> 0],
   made         |-> 0,
   listening    |-> {},
   open         |-> {},
   resp         |-> 0]

\* A handler of the object starts with nothing sent
syncBegin(S) == [S EXCEPT !.sent = <<>>, !.resp = 0]

\* broadcast(message, exclude): every socket of `players` but `exclude`
\* whose readyState is OPEN, in the order of the map
syncBroadcast(S, message, exclude) ==
  LET targets == SetToSeq({w \in DOMAIN S.players :
                             w # exclude /\ w \in S.open})
  IN  [S EXCEPT !.sent = @ \o [i \in 1..Len(targets) |->
                                 [ws |-> targets[i], frame |-> message]]]

\* Variant of replaceExisting that closes the old socket and keeps its entry
replaceExistingKeepsEntry(S, playerId) ==
  LET old == {w \in DOMAIN S.players : S.players[w].playerId = playerId}
  IN  [S EXCEPT !.closes = [w \in (DOMAIN S.closes) \cup old |->
                              IF w \in old
                              THEN [code |-> 1000,
                                    reason |-> "Replaced by new connection"]
                              ELSE S.closes[w]],
                !.open = @ \ old]

\* The loop of handleWebSocket over `players`, lines 40-49: every socket of
\* the playerId is closed and its entry deleted
replaceExisting(S, playerId) ==
  LET old == {w \in DOMAIN S.players : S.players[w].playerId = playerId}
  IN  [S EXCEPT !.closes = [w \in (DOMAIN S.closes) \cup old |->
                              IF w \in old
                              THEN [code |-> 1000,
                                    reason |-> "Replaced by new connection"]
                              ELSE S.closes[w]],
                !.open = @ \ old,
                !.players = [w \in (DOMAIN S.players) \ old |-> S.players[w]]]

\* handleWebSocket(request, url) with a playerId, as the route guarantees
syncHandleWebSocket(S0, playerId, server, t) ==
  LET S == replaceExisting(syncBegin(S0), playerId)
      A == [S EXCEPT !.made = server,
                     !.open = @ \cup {server},
                     !.listening = @ \cup {server},
                     !.players = [w \in (DOMAIN S.players) \cup {server} |->
                                    IF w = server
                                    THEN [playerId |-> playerId,
                                          state    |-> EmptyObject,
                                          joinedAt |-> t]
                                    ELSE S.players[w]]]
      fullState == [id \in (DOMAIN A.playerStates) \ {playerId} |->
                      A.playerStates[id]]
      B == IF DOMAIN fullState # {}
           THEN [A EXCEPT !.sent = @ \o
                   <<[ws |-> server,
                      frame |-> [type |-> "full_state", state |-> fullState]]>>]
           ELSE A
  IN  [syncBroadcast(B, [type |-> "join", playerId |-> playerId], server)
         EXCEPT !.resp = 101]

\* Variant of handleMessage without the `if (!connection) return`: a ping on
\* a socket that has no entry is answered
syncHandleMessageAnySocket(S0, ws, message, t) ==
  LET S == syncBegin(S0)
  IN  CASE message.type = "state" /\ ws \in DOMAIN S.players ->
             syncBroadcast(
               [S EXCEPT !.players[ws].state = message.data,
                         !.playerStates =
                            [p \in (DOMAIN @) \cup {S.players[ws].playerId} |->
                               IF p = S.players[ws].playerId
                               THEN message.data ELSE @[p]]],
               [type |-> "state", playerId |-> S.players[ws].playerId,
                data |-> message.data],
               ws)
        [] message.type = "ping" ->
             [S EXCEPT !.sent = @ \o <<[ws |-> ws,
                                        frame |-> [type |-> "pong",
                                                   time |-> t]]>>]
        [] OTHER -> S

\* handleMessage(ws, data)
syncHandleMessage(S0, ws, message, t) ==
  LET S == syncBegin(S0)
  IN  IF ws \notin DOMAIN S.players THEN S
      ELSE CASE message.type = "state" ->
                  syncBroadcast(
                    [S EXCEPT !.players[ws].state = message.data,
                              !.playerStates =
                                 [p \in (DOMAIN @) \cup {S.players[ws].playerId} |->
                                    IF p = S.players[ws].playerId
                                    THEN message.data ELSE @[p]]],
                    [type |-> "state", playerId |-> S.players[ws].playerId,
                     data |-> message.data],
                    ws)
             [] message.type = "ping" /\ ws \in S.open ->
                  [S EXCEPT !.sent = @ \o <<[ws |-> ws,
                                             frame |-> [type |-> "pong",
                                                        time |-> t]]>>]
             [] OTHER -> S     \* another type, or send() threw

\* handleClose(ws), for the close and the error event
syncHandleClose(S0, ws) ==
  LET S == syncBegin(S0)
  IN  IF ws \notin DOMAIN S.players THEN S
      ELSE LET playerId == S.players[ws].playerId
           IN  syncBroadcast(
                 [S EXCEPT !.players = [w \in (DOMAIN @) \ {ws} |-> @[w]],
                           !.playerStates =
                              [p \in (DOMAIN @) \ {playerId} |-> @[p]]],
                 [type |-> "leave", playerId |-> playerId],
                 0)


InitWith(names, tenants) ==
  /\ actors = [n \in ActorNames |-> constructor(Null, [w \in {} |-> ""])]
  /\ now = 0
  /\ last = Event("init", <<>>, "", 0, NoMsg, 0)
  /\ steps = 0
  /\ ids = names
  /\ games = tenants
  /\ kv = EmptyKV
  /\ out = NoRequest
  /\ revoked = {}
  /\ track = NoTracks
  /\ sessions = NoSessions
  /\ creates = NoCreates
  /\ sync = NewSyncRoom

Init == InitWith(OrdinaryIds, OneGame)

InitAnyId == InitWith(AnyIds, OneGame)

InitTenants == InitWith(TenantIds, GameIds)

\* One more event has happened
Counted ==
  /\ steps < MaxSteps
  /\ steps' = steps + 1
  /\ UNCHANGED <<ids, games, track, sessions, creates, sync>>

\* One more event has happened; it was no request to the auth gate and left
\* the key/value namespace alone
Delivered == Counted /\ out' = NoRequest /\ UNCHANGED <<kv, revoked>>

\* POST /v1/rooms
RoomsCreate(gameId, playerId) ==
  \E roomCode \in GeneratedCodes :
    \E n \in {getRoomStub(roomCode)} :
    /\ actors' = [actors EXCEPT ![n] = handleCreate(@, gameId, playerId, now)]
    /\ last' = Event("create", n, playerId, 0, NoMsg,
                     IF actors'[n].resp = 200 THEN 200 ELSE 500)
    /\ Delivered
  /\ UNCHANGED now

\* GET /v1/rooms/:code
RoomsInfo(gameId, playerId, code) ==
  \E n \in {getRoomStub(toUpperCase(code))} :
  /\ actors' = [actors EXCEPT ![n] = handleInfo(@)]
  /\ last' = Routed(Event("info", n, "", 0, NoMsg, actors'[n].resp), code)
  /\ Delivered
  /\ UNCHANGED now

\* POST /v1/rooms/:code/join
RoomsJoin(gameId, playerId, code) ==
  \E n \in {getRoomStub(toUpperCase(code))} :
  /\ actors' = [actors EXCEPT ![n] = handleJoin(@, playerId, now)]
  /\ last' = Routed(Event("join", n, playerId, 0, NoMsg, actors'[n].resp),
                     code)
  /\ Delivered
  /\ UNCHANGED now

\* GET /v1/rooms/:code/ws with Upgrade: websocket
RoomsWs(gameId, playerId, code) ==
  \E n \in {getRoomStub(toUpperCase(code))} :
  LET free == (1..MaxSockets) \ DOMAIN actors[n].sockets IN
  /\ free # {}
  /\ LET server == CHOOSE w \in free : \A v \in free : w <= v IN
     /\ actors' = [actors EXCEPT ![n] = handleWebSocket(@, playerId, server, now)]
     /\ last' = Routed(Event("ws", n, playerId, server, NoMsg,
                              actors'[n].resp), code)
  /\ Delivered
  /\ UNCHANGED now

\* A client frame arrives on an open socket
Message(n, ws, data) ==
  /\ ws \in DOMAIN actors[n].sockets
  /\ actors' = [actors EXCEPT ![n] = webSocketMessage(@, ws, data, now)]
  /\ last' = Event("message", n, actors[n].sockets[ws], ws, data, 0)
  /\ Delivered
  /\ UNCHANGED now

\* An open socket closes
Close(n, ws) ==
  /\ ws \in DOMAIN actors[n].sockets
  /\ actors' = [actors EXCEPT ![n] = webSocketClose(@, ws)]
  /\ last' = Event("close", n, actors[n].sockets[ws], ws, NoMsg, 0)
  /\ Delivered
  /\ UNCHANGED now

\* The 50 ms interval fires
Tick(n) ==
  /\ actors[n].broadcastInterval
  /\ actors' = [actors EXCEPT ![n] = tick(@)]
  /\ last' = Event("tick", n, "", 0, NoMsg, 0)
  /\ Delivered
  /\ UNCHANGED now

\* The instance is evicted from memory; the platform keeps the accepted
\* sockets and the storage, and the constructor of the next instance runs
\* before the next event is delivered.
Hibernate(n) ==
  /\ actors' = [actors EXCEPT ![n] =
                  constructor(actors[n].storage, actors[n].sockets)]
  /\ last' = Event("wake", n, "", 0, NoMsg, 0)
  /\ Delivered
  /\ UNCHANGED now

\* Date.now() advances
AdvanceClock ==
  /\ now < MaxTime
  /\ now' = now + 1
  /\ last' = Event("clock", <<>>, "", 0, NoMsg, 0)
  /\ Delivered
  /\ UNCHANGED actors

(***************************************************************************)
(* The same events delivered to the earlier variant of the class           *)
(***************************************************************************)
InitEarlier ==
  /\ actors = [n \in ActorNames |-> constructorEarlier(Null, [w \in {} |-> ""])]
  /\ now = 0
  /\ last = Event("init", <<>>, "", 0, NoMsg, 0)
  /\ steps = 0
  /\ ids = TenantIds
  /\ games = OneGame
  /\ kv = EmptyKV
  /\ out = NoRequest
  /\ revoked = {}
  /\ track = NoTracks
  /\ sessions = NoSessions
  /\ creates = NoCreates
  /\ sync = NewSyncRoom

RoomsCreateEarlier(gameId, playerId) ==
  \E roomCode \in GeneratedCodes :
    \E n \in {getRoomStub(roomCode)} :
    /\ actors' = [actors EXCEPT ![n] = handleCreateEarlier(@, gameId, playerId, now)]
    /\ last' = Event("create", n, playerId, 0, NoMsg,
                     IF actors'[n].resp = 200 THEN 200 ELSE 500)
    /\ Delivered
  /\ UNCHANGED now

RoomsWsEarlier(gameId, playerId, code) ==
  \E n \in {getRoomStub(toUpperCase(code))} :
  LET free == (1..MaxSockets) \ DOMAIN actors[n].sockets IN
  /\ free # {}
  /\ LET server == CHOOSE w \in free : \A v \in free : w <= v IN
     /\ actors' = [actors EXCEPT ![n] =
                     handleWebSocketEarlier(@, playerId, server, now)]
     /\ last' = Routed(Event("ws", n, playerId, server, NoMsg,
                              actors'[n].resp), code)
  /\ Delivered
  /\ UNCHANGED now

MessageEarlier(n, ws, data) ==
  /\ ws \in DOMAIN actors[n].sockets
  /\ actors' = [actors EXCEPT ![n] = webSocketMessageEarlier(@, ws, data, now)]
  /\ last' = Event("message", n, actors[n].sockets[ws], ws, data, 0)
  /\ Delivered
  /\ UNCHANGED now

CloseEarlier(n, ws) ==
  /\ ws \in DOMAIN actors[n].sockets
  /\ actors' = [actors EXCEPT ![n] = webSocketCloseEarlier(@, ws)]
  /\ last' = Event("close", n, actors[n].sockets[ws], ws, NoMsg, 0)
  /\ Delivered
  /\ UNCHANGED now

HibernateEarlier(n) ==
  /\ actors' = [actors EXCEPT ![n] =
                  constructorEarlier(actors[n].storage, actors[n].sockets)]
  /\ last' = Event("wake", n, "", 0, NoMsg, 0)
  /\ Delivered
  /\ UNCHANGED now

NextEarlier ==
  \/ \E g \in games, p \in ids : RoomsCreateEarlier(g, p)
  \/ \E g \in games, p \in ids, c \in RequestCodes : RoomsInfo(g, p, c)
  \/ \E g \in games, p \in ids, c \in RequestCodes : RoomsJoin(g, p, c)
  \/ \E g \in games, p \in ids, c \in RequestCodes : RoomsWsEarlier(g, p, c)
  \/ \E n \in ActorNames, ws \in 1..MaxSockets, d \in ClientMessages(ids) :
       MessageEarlier(n, ws, d)
  \/ \E n \in ActorNames, ws \in 1..MaxSockets : CloseEarlier(n, ws)
  \/ \E n \in ActorNames : HibernateEarlier(n)
  \/ AdvanceClock

SpecEarlier == InitEarlier /\ [][NextEarlier]_vars

(***************************************************************************)
(* The auth gate and the key registry                                      *)
(***************************************************************************)
KeyA == KeyPrefix \o <<"a">>

KeyB == KeyPrefix \o <<"b">>

\* A key of another scheme
ForeignKey == <<"s", "k", "_", "a">>

ApiKeys == {KeyA, KeyB, ForeignKey}

ProjectIds == {"proj1"}

\* gameIds the dashboard registers keys for
KeyGameIds == {<<"g", "A">>, <<"g", "B">>}

\* Authorization headers: absent, Bearer with each key, Bearer with nothing
\* after it, a key without the scheme, the scheme in lower case
AuthorizationHeaders ==
       {Undef, Str(BearerScheme), Str(KeyA),
        Str(<<"b", "e", "a", "r", "e", "r", " ">> \o KeyA)}
  \cup {Str(BearerScheme \o k) : k \in ApiKeys}

QueryApiKeys == {Undef, Str(<<>>), Str(KeyB)}

PublicRequests ==
  [authorization : AuthorizationHeaders,
   xPlayerId     : {Undef, Str(<<>>), Str(<<"p">>)},
   queryPlayerId : {Undef, Str(<<"q">>)},
   queryApiKey   : QueryApiKeys]

InternalHeaders ==
  {Undef, Str(BearerScheme \o INTERNAL_SECRET), Str(BearerScheme \o <<"x">>)}

KeyBodies ==
  [apiKey    : {Undef} \cup {Str(k) : k \in ApiKeys},
   gameId    : {<<>>} \cup KeyGameIds,
   projectId : {""} \cup ProjectIds]

InitAuth ==
  /\ actors = [n \in ActorNames |-> constructor(Null, [w \in {} |-> ""])]
  /\ now = 0
  /\ last = Event("init", <<>>, "", 0, NoMsg, 0)
  /\ steps = 0
  /\ ids = {}
  /\ games = GameIds
  /\ kv = EmptyKV
  /\ out = NoRequest
  /\ revoked = {}
  /\ track = NoTracks
  /\ sessions = NoSessions
  /\ creates = NoCreates
  /\ sync = NewSyncRoom

\* Any request under /v1/*: the middleware runs before the route's handler
PublicRequest(req) ==
  /\ out' = [req |-> req, res |-> authMiddleware(kv, req)]
  /\ last' = Event("auth", <<>>, "", 0, NoMsg, out'.res.status)
  /\ Counted
  /\ UNCHANGED <<actors, now, kv, revoked>>

\* revoked is history: the keys whose entry a delete removed and no put has
\* stored again since
InternalPostKeys(authHeader, body) ==
  /\ kv' = postKeys(kv, authHeader, body, now).store
  /\ last' = Event("postKeys", <<>>, "", 0, NoMsg,
                   postKeys(kv, authHeader, body, now).status)
  /\ revoked' = IF last'.status = 200 THEN revoked \ {body.apiKey.s} ELSE revoked
  /\ out' = NoRequest
  /\ Counted
  /\ UNCHANGED <<actors, now>>

InternalDeleteKeys(authHeader, apiKey) ==
  /\ kv' = deleteKeys(kv, authHeader, apiKey).store
  /\ last' = Event("deleteKeys", <<>>, "", 0, NoMsg,
                   deleteKeys(kv, authHeader, apiKey).status)
  /\ revoked' = IF last'.status = 200 /\ ApikeyNs \o apiKey \in DOMAIN kv
                THEN revoked \cup {apiKey} ELSE revoked
  /\ out' = NoRequest
  /\ Counted
  /\ UNCHANGED <<actors, now>>

InternalGetKeys(authHeader, apiKey) ==
  /\ kv' = getKeys(kv, authHeader, apiKey).store
  /\ last' = Event("getKeys", <<>>, "", 0, NoMsg,
                   getKeys(kv, authHeader, apiKey).status)
  /\ out' = NoRequest
  /\ Counted
  /\ UNCHANGED <<actors, now, revoked>>

NextAuth ==
  \/ \E req \in PublicRequests : PublicRequest(req)
  \/ \E h \in InternalHeaders, body \in KeyBodies : InternalPostKeys(h, body)
  \/ \E h \in InternalHeaders, k \in ApiKeys : InternalDeleteKeys(h, k)
  \/ \E h \in InternalHeaders, k \in ApiKeys : InternalGetKeys(h, k)
  \/ AdvanceClock

SpecAuth == InitAuth /\ [][NextAuth]_vars

(***************************************************************************)
(* The saves routes, with the registry that authenticates them             *)
(***************************************************************************)
\* gameIds keys are registered for: an ordinary one and one that is spelled
\* like the prefix of the registry's own entries
SaveGameIds == {<<"g">>, <<"a", "p", "i", "k", "e", "y">>}

\* Client-asserted playerIds and save keys, with and without ':'
SavePlayerIds == {<<"p">>, <<"p", ":", "q">>}

SaveKeys == {<<"k">>, <<"q", ":", "k">>}

\* Request bodies: text that is not JSON, the JSON text null, a JSON object
SaveTexts ==
  {[valid |-> FALSE, json |-> Null],
   [valid |-> TRUE, json |-> Null],
   [valid |-> TRUE, json |-> [level |-> 1]]}

SaveRequests ==
  [authorization : {Str(BearerScheme \o KeyA), Str(BearerScheme \o KeyB)},
   xPlayerId     : {Str(p) : p \in SavePlayerIds},
   queryPlayerId : {Undef},
   queryApiKey   : {Undef}]

SaveKeyBodies ==
  [apiKey : {Str(KeyA), Str(KeyB)}, gameId : SaveGameIds, projectId : ProjectIds]

InitSaves ==
  /\ actors = [n \in ActorNames |-> constructor(Null, [w \in {} |-> ""])]
  /\ now = 0
  /\ last = Event("init", <<>>, "", 0, NoMsg, 0)
  /\ steps = 0
  /\ ids = {}
  /\ games = GameIds
  /\ kv = EmptyKV
  /\ out = NoRequest
  /\ revoked = {}
  /\ track = NoTracks
  /\ sessions = NoSessions
  /\ creates = NoCreates
  /\ sync = NewSyncRoom

\* The reply of a saves route: the middleware's refusal, or what the handler
\* yields when the middleware called next()
SavesReply(res, handled) ==
  IF res.next
  THEN [status |-> handled.status, body |-> handled.body]
  ELSE [status |-> res.status, body |-> [error |-> res.error]]

SavesList(req) ==
  LET res     == authMiddleware(kv, req)
      handled == savesList(kv, res.gameId, res.playerId.s)
  IN  /\ kv' = IF res.next THEN handled.store ELSE kv
      /\ out' = [req |-> req, res |-> res, reply |-> SavesReply(res, handled)]
      /\ last' = Event("savesList", <<>>, "", 0, NoMsg, out'.reply.status)
      /\ Counted
      /\ UNCHANGED <<actors, now, revoked>>

SavesGet(req, saveKey) ==
  LET res     == authMiddleware(kv, req)
      handled == savesGet(kv, res.gameId, res.playerId.s, saveKey)
  IN  /\ kv' = IF res.next THEN handled.store ELSE kv
      /\ out' = [req |-> req, res |-> res, reply |-> SavesReply(res, handled)]
      /\ last' = Event("savesGet", <<>>, "", 0, NoMsg, out'.reply.status)
      /\ Counted
      /\ UNCHANGED <<actors, now, revoked>>

SavesPost(req, saveKey, text) ==
  LET res     == authMiddleware(kv, req)
      handled == savesPost(kv, res.gameId, res.playerId.s, saveKey, text)
  IN  /\ kv' = IF res.next THEN handled.store ELSE kv
      /\ out' = [req |-> req, res |-> res, reply |-> SavesReply(res, handled)]
      /\ last' = Event("savesPost", <<>>, "", 0, NoMsg, out'.reply.status)
      /\ Counted
      /\ UNCHANGED <<actors, now, revoked>>

SavesDelete(req, saveKey) ==
  LET res     == authMiddleware(kv, req)
      handled == savesDelete(kv, res.gameId, res.playerId.s, saveKey)
  IN  /\ kv' = IF res.next THEN handled.store ELSE kv
      /\ out' = [req |-> req, res |-> res, reply |-> SavesReply(res, handled)]
      /\ last' = Event("savesDelete", <<>>, "", 0, NoMsg, out'.reply.status)
      /\ Counted
      /\ UNCHANGED <<actors, now, revoked>>

NextSaves ==
  \/ \E body \in SaveKeyBodies : InternalPostKeys(Str(BearerScheme \o INTERNAL_SECRET), body)
  \/ \E req \in SaveRequests : SavesList(req)
  \/ \E req \in SaveRequests, k \in SaveKeys : SavesGet(req, k)
  \/ \E req \in SaveRequests, k \in SaveKeys, text \in SaveTexts :
       SavesPost(req, k, text)
  \/ \E req \in SaveRequests, k \in SaveKeys : SavesDelete(req, k)

SpecSaves == InitSaves /\ [][NextSaves]_vars

(***************************************************************************)
(* POST /v1/stats/track for one game, requests in flight together          *)
(***************************************************************************)
InitStats ==
  /\ actors = [n \in ActorNames |-> constructor(Null, [w \in {} |-> ""])]
  /\ now = 0
  /\ last = Event("init", <<>>, "", 0, NoMsg, 0)
  /\ steps = 0
  /\ ids = {}
  /\ games = GameIds
  /\ kv = EmptyKV
  /\ out = NoRequest
  /\ revoked = {}
  /\ track = NoTracks
  /\ sessions = NoSessions
  /\ creates = NoCreates
  /\ sync = NewSyncRoom

TrackQuiet == UNCHANGED <<actors, now, last, steps, ids, games, out, revoked,
                 creates, sync>>

\* The request arrives: lines 34-41, up to the first read
TrackBegin(i, playerId, event) ==
  /\ track[i].pc = "idle"
  /\ steps < MaxTracks
  /\ steps' = steps + 1
  /\ track' = [track EXCEPT ![i] = [Idle EXCEPT !.pc = "getStats",
                                                !.event = event,
                                                !.playerId = playerId]]
  /\ sessions' =
       IF event = "session_end"
       THEN [sessions EXCEPT !.paired = @ /\ sessions.open[playerId] > 0,
                             !.open[playerId] = max0(@ - 1)]
       ELSE sessions
  /\ UNCHANGED <<actors, now, last, ids, games, kv, out, revoked,
                 creates, sync>>

\* line 44-45
TrackGetStats(i) ==
  /\ track[i].pc = "getStats"
  /\ LET stored == kvGet(kv, statsKey(TrackGame)) IN
     track' = [track EXCEPT ![i].stats = IF stored = Null THEN ZeroStats
                                                          ELSE stored,
                            ![i].pc = "getDaily"]
  /\ UNCHANGED <<kv, sessions, creates, sync>>
  /\ TrackQuiet

\* line 48
TrackGetDaily(i) ==
  /\ track[i].pc = "getDaily"
  /\ track' = [track EXCEPT
                 ![i].dailyPlayers = getOrEmpty(kv, dailyKey(TrackGame, now)),
                 ![i].pc = "getMonthly"]
  /\ UNCHANGED <<kv, sessions, creates, sync>>
  /\ TrackQuiet

\* line 49
TrackGetMonthly(i) ==
  /\ track[i].pc = "getMonthly"
  /\ track' = [track EXCEPT
                 ![i].monthlyPlayers =
                   getOrEmpty(kv, monthlyKey(TrackGame, now)),
                 ![i].pc = "getPlayer"]
  /\ UNCHANGED <<kv, sessions, creates, sync>>
  /\ TrackQuiet

\* lines 52-55 and the switch up to its first write
TrackGetPlayer(i) ==
  /\ track[i].pc = "getPlayer"
  /\ LET r == [track[i] EXCEPT
                 !.playerData =
                   kvGet(kv, playerKey(TrackGame, track[i].playerId))]
     IN  track' = [track EXCEPT ![i] = switchEvent(r, now)]
  /\ UNCHANGED <<kv, sessions, creates, sync>>
  /\ TrackQuiet

\* line 65
TrackPutDaily(i) ==
  /\ track[i].pc = "putDaily"
  /\ kv' = kvPut(kv, dailyKey(TrackGame, now),
                 JSONstringify(track[i].dailyPlayers))
  /\ track' = [track EXCEPT ![i] = toMonthly(track[i])]
  /\ UNCHANGED <<sessions, creates, sync>>
  /\ TrackQuiet

\* line 70
TrackPutMonthly(i) ==
  /\ track[i].pc = "putMonthly"
  /\ kv' = kvPut(kv, monthlyKey(TrackGame, now),
                 JSONstringify(track[i].monthlyPlayers))
  /\ track' = [track EXCEPT ![i] = toPlayer(track[i])]
  /\ UNCHANGED <<sessions, creates, sync>>
  /\ TrackQuiet

\* lines 77-81, then line 105
TrackPutPlayer(i) ==
  /\ track[i].pc = "putPlayer"
  /\ kv' = kvPut(kv, playerKey(TrackGame, track[i].playerId),
                 JSONstringify(playerRecord(track[i].playerData, now)))
  /\ track' = [track EXCEPT ![i] = toStats(track[i], now)]
  /\ UNCHANGED <<sessions, creates, sync>>
  /\ TrackQuiet

\* lines 106-108: the counters are written and the request is answered
TrackPutStats(i) ==
  /\ track[i].pc = "putStats"
  /\ kv' = kvPut(kv, statsKey(TrackGame), JSONstringify(track[i].stats))
  /\ track' = [track EXCEPT ![i] = Idle]
  /\ sessions' =
       IF track[i].event = "session_start"
       THEN [sessions EXCEPT !.open[track[i].playerId] = @ + 1,
                             !.started = @ \cup {track[i].playerId}]
       ELSE sessions
  /\ last' = Event("track", <<>>, "", 0, NoMsg, 200)
  /\ UNCHANGED <<actors, now, steps, ids, games, out, revoked,
                 creates, sync>>

NextStats ==
  \/ \E i \in TrackSlots, p \in TrackPlayers, e \in TrackEvents :
       TrackBegin(i, p, e)
  \/ \E i \in TrackSlots : TrackGetStats(i)
  \/ \E i \in TrackSlots : TrackGetDaily(i)
  \/ \E i \in TrackSlots : TrackGetMonthly(i)
  \/ \E i \in TrackSlots : TrackGetPlayer(i)
  \/ \E i \in TrackSlots : TrackPutDaily(i)
  \/ \E i \in TrackSlots : TrackPutMonthly(i)
  \/ \E i \in TrackSlots : TrackPutPlayer(i)
  \/ \E i \in TrackSlots : TrackPutStats(i)

SpecStats == InitStats /\ [][NextStats]_vars

Next ==
  \/ \E g \in games, p \in ids : RoomsCreate(g, p)
  \/ \E g \in games, p \in ids, c \in RequestCodes : RoomsInfo(g, p, c)
  \/ \E g \in games, p \in ids, c \in RequestCodes : RoomsJoin(g, p, c)
  \/ \E g \in games, p \in ids, c \in RequestCodes : RoomsWs(g, p, c)
  \/ \E n \in ActorNames, ws \in 1..MaxSockets, d \in ClientMessages(ids) :
       Message(n, ws, d)
  \/ \E n \in ActorNames, ws \in 1..MaxSockets : Close(n, ws)
  \/ \E n \in ActorNames : Tick(n)
  \/ \E n \in ActorNames : Hibernate(n)
  \/ AdvanceClock

Spec == Init /\ [][Next]_vars

SpecAnyId == InitAnyId /\ [][Next]_vars

SpecTenants == InitTenants /\ [][Next]_vars

(***************************************************************************)
(* Handlers whose storage.put rejects.  saveState awaits the put with no   *)
(* try/catch (lines 635-639), so the rejection is thrown at the            *)
(* `await this.saveState()` of the handler: the assignments made before    *)
(* that line stand and nothing after it runs.  In the fetch handlers the   *)
(* exception leaves fetch, and the caller gets no response of the handler  *)
(* (status 500 here); in webSocketMessage it is caught by the try/catch    *)
(* around the whole switch, which logs it; in webSocketClose it leaves the *)
(* handler.                                                                *)
(***************************************************************************)
LiveIds == {"alice", "bob"}

\* Status of an event whose handler met a rejected put
PutRejected == 599

\* handleCreate, lines 363-378
handleCreateRejected(A0, gameId, hostId, t) ==
  LET A == Begin(A0)
  IN  Respond([A EXCEPT !.roomState =
                 [gameId       |-> gameId,
                  hostId       |-> hostId,
                  createdAt    |-> t,
                  players      |-> <<[id |-> hostId, joinedAt |-> t]>>,
                  playerStates |-> NoStates,
                  gameState    |-> EmptyObject]],
              500)

\* handleJoin, lines 398-406
handleJoinRejected(A0, playerId, t) ==
  LET A == Begin(A0)
  IN  Respond([A EXCEPT !.roomState.players = SetPlayer(@, playerId, t)], 500)

\* handleWebSocket, lines 425-445: the socket is accepted before the write
handleWebSocketRejected(A0, playerId, server, t) ==
  LET A == Begin(A0)
  IN  Respond([A EXCEPT !.sockets =
                          [w \in (DOMAIN A.sockets) \cup {server} |->
                             IF w = server THEN playerId ELSE A.sockets[w]],
                        !.roomState.players = SetPlayer(@, playerId, t)],
              500)

\* webSocketMessage, game_state (lines 495-499) and transfer_host (507-516)
webSocketMessageRejected(A0, ws, data) ==
  LET A == Begin(A0)
  IN  IF data.type = "game_state"
      THEN [A EXCEPT !.roomState.gameState = data.state]
      ELSE [A EXCEPT !.roomState.hostId = data.newHostId]

\* webSocketClose, lines 554-588, with players remaining
webSocketCloseRejected(A0, ws) ==
  LET A1 == Begin(A0)
      playerId == A1.sockets[ws]
      A == [A1 EXCEPT !.sockets = [w \in (DOMAIN A1.sockets) \ {ws} |-> A1.sockets[w]]]
      wasHost == playerId = A.roomState.hostId
      B == [A EXCEPT !.roomState.players = DeletePlayer(@, playerId),
                     !.roomState.playerStates = DeleteState(@, playerId)]
  IN  hostMigration(B, wasHost, B.roomState.players)

RoomsCreateRejected(gameId, playerId) ==
  \E roomCode \in GeneratedCodes :
    \E n \in {getRoomStub(roomCode)} :
    /\ actors[n].roomState = Null
    /\ actors' = [actors EXCEPT ![n] =
                    handleCreateRejected(@, gameId, playerId, now)]
    /\ last' = Event("create", n, playerId, 0, NoMsg, PutRejected)
    /\ Delivered
  /\ UNCHANGED now

RoomsJoinRejected(gameId, playerId, code) ==
  \E n \in {getRoomStub(toUpperCase(code))} :
  /\ actors[n].roomState # Null
  /\ ~Lookup(actors[n].roomState.players, playerId)
  /\ actors' = [actors EXCEPT ![n] = handleJoinRejected(@, playerId, now)]
  /\ last' = Routed(Event("join", n, playerId, 0, NoMsg, PutRejected), code)
  /\ Delivered
  /\ UNCHANGED now

RoomsWsRejected(gameId, playerId, code) ==
  \E n \in {getRoomStub(toUpperCase(code))} :
  LET free == (1..MaxSockets) \ DOMAIN actors[n].sockets IN
  /\ free # {}
  /\ actors[n].roomState # Null
  /\ ~Lookup(actors[n].roomState.players, playerId)
  /\ LET server == CHOOSE w \in free : \A v \in free : w <= v IN
     /\ actors' = [actors EXCEPT ![n] =
                     handleWebSocketRejected(@, playerId, server, now)]
     /\ last' = Routed(Event("ws", n, playerId, server, NoMsg, PutRejected),
                       code)
  /\ Delivered
  /\ UNCHANGED now

MessageRejected(n, ws, data) ==
  /\ ws \in DOMAIN actors[n].sockets
  /\ actors[n].roomState # Null
  /\ isHost(actors[n], actors[n].sockets[ws])
  /\ \/ data.type = "game_state"
     \/ /\ data.type = "transfer_host"
        /\ Lookup(actors[n].roomState.players, data.newHostId)
  /\ actors' = [actors EXCEPT ![n] = webSocketMessageRejected(@, ws, data)]
  /\ last' = Event("message", n, actors[n].sockets[ws], ws, data, PutRejected)
  /\ Delivered
  /\ UNCHANGED now

CloseRejected(n, ws) ==
  /\ ws \in DOMAIN actors[n].sockets
  /\ actors[n].roomState # Null
  /\ Len(DeletePlayer(actors[n].roomState.players, actors[n].sockets[ws])) > 0
  /\ actors' = [actors EXCEPT ![n] = webSocketCloseRejected(@, ws)]
  /\ last' = Event("close", n, actors[n].sockets[ws], ws, NoMsg, PutRejected)
  /\ Delivered
  /\ UNCHANGED now

InitRejected == InitWith(LiveIds, OneGame)

NextRejected ==
  \/ Next
  \/ \E g \in games, p \in ids : RoomsCreateRejected(g, p)
  \/ \E g \in games, p \in ids, c \in RequestCodes : RoomsJoinRejected(g, p, c)
  \/ \E g \in games, p \in ids, c \in RequestCodes : RoomsWsRejected(g, p, c)
  \/ \E n \in ActorNames, ws \in 1..MaxSockets, d \in ClientMessages(ids) :
       MessageRejected(n, ws, d)
  \/ \E n \in ActorNames, ws \in 1..MaxSockets : CloseRejected(n, ws)

SpecRejected == InitRejected /\ [][NextRejected]_vars

(***************************************************************************)
(* handleCreate step by step.  The handler tests this.roomState, then      *)
(* awaits request.json(): reading the body is no storage operation, so the *)
(* actor is free to take another event while the read is pending.  From    *)
(* the resumption on, the assignment, the awaited storage.put (during      *)
(* which the input gate holds every other event back) and the response     *)
(* run without another event in between.                                   *)
(***************************************************************************)
CreateActor == CHOOSE n \in ActorNames : TRUE

\* handleCreate from the resumption after `await request.json()` to the end
handleCreateResumed(A0, gameId, hostId, t) ==
  LET A == Begin(A0)
  IN  Respond(
        saveState([A EXCEPT !.roomState =
          [gameId       |-> gameId,
           hostId       |-> hostId,
           createdAt    |-> t,
           players      |-> <<[id |-> hostId, joinedAt |-> t]>>,
           playerStates |-> NoStates,
           gameState    |-> EmptyObject]]),
        200)

InitCreate ==
  /\ actors = [n \in ActorNames |-> constructor(Null, [w \in {} |-> ""])]
  /\ now = 0
  /\ last = Event("init", <<>>, "", 0, NoMsg, 0)
  /\ steps = 0
  /\ ids = LiveIds
  /\ games = OneGame
  /\ kv = EmptyKV
  /\ out = NoRequest
  /\ revoked = {}
  /\ track = NoTracks
  /\ sessions = NoSessions
  /\ creates = NoCreates
  /\ sync = NewSyncRoom

CreateQuiet ==
  UNCHANGED <<now, steps, ids, games, kv, out, revoked, track, sessions, sync>>

\* The request enters handleCreate: lines 362-367, up to the await
CreateArrives(i, gameId, hostId) ==
  /\ creates[i].pc = "idle"
  /\ creates' =
       [creates EXCEPT ![i] =
          IF actors[CreateActor].roomState # Null
          THEN [pc |-> "done", gameId |-> gameId, hostId |-> hostId,
                resp |-> 400]
          ELSE [pc |-> "json", gameId |-> gameId, hostId |-> hostId,
                resp |-> 0]]
  /\ actors' =
       IF actors[CreateActor].roomState # Null
       THEN [actors EXCEPT ![CreateActor] = Respond(Begin(@), 400)]
       ELSE actors
  /\ last' = Event("create", CreateActor, hostId, 0, NoMsg,
                   IF actors[CreateActor].roomState # Null THEN 500 ELSE 0)
  /\ CreateQuiet

\* The body has been read: lines 367-380
CreateResumes(i) ==
  /\ creates[i].pc = "json"
  /\ actors' = [actors EXCEPT ![CreateActor] =
                  handleCreateResumed(@, creates[i].gameId, creates[i].hostId,
                                      now)]
  /\ creates' = [creates EXCEPT ![i].pc = "done", ![i].resp = 200]
  /\ last' = Event("create", CreateActor, creates[i].hostId, 0, NoMsg, 200)
  /\ CreateQuiet

\* The client has its response; the slot serves the next request
CreateReturns(i) ==
  /\ creates[i].pc = "done"
  /\ creates' = [creates EXCEPT ![i] = IdleCreate]
  /\ last' = Event("returned", CreateActor, creates[i].hostId, 0, NoMsg,
                   creates[i].resp)
  /\ UNCHANGED actors
  /\ CreateQuiet

NextCreate ==
  \/ \E i \in CreateSlots, g \in games, h \in ids : CreateArrives(i, g, h)
  \/ \E i \in CreateSlots : CreateResumes(i)
  \/ \E i \in CreateSlots : CreateReturns(i)
  \/ AdvanceClock

SpecCreate == InitCreate /\ [][NextCreate]_vars

(***************************************************************************)
(* The events of one SyncRoom object                                       *)
(***************************************************************************)
\* An event of the object is one of the counted events of a behaviour
SyncQuiet ==
  /\ steps < MaxSteps
  /\ steps' = steps + 1
  /\ UNCHANGED <<actors, now, ids, games, kv, out, revoked, track, sessions,
                 creates>>

\* GET /v1/sync/:roomId/ws with Upgrade: websocket
SyncWs(playerId) ==
  /\ sync.made < MaxConnections
  /\ sync' = syncHandleWebSocket(sync, playerId, sync.made + 1, now)
  /\ last' = Event("ws", <<>>, playerId, sync.made + 1, NoMsg, 101)
  /\ SyncQuiet

\* A frame of the client arrives on a socket whose listeners are in place
SyncMessage(ws, message) ==
  /\ ws \in sync.listening
  /\ sync' = syncHandleMessage(sync, ws, message, now)
  /\ last' = Event("message", <<>>, "", ws, message, 0)
  /\ SyncQuiet

\* The connection of a socket goes down: readyState leaves OPEN before the
\* close event is dispatched
SyncGoesAway(ws) ==
  /\ ws \in sync.open
  /\ sync' = [syncBegin(sync) EXCEPT !.open = @ \ {ws}]
  /\ last' = Event("away", <<>>, "", ws, NoMsg, 0)
  /\ SyncQuiet

\* The close event of a socket: the last event it delivers
SyncClose(ws) ==
  /\ ws \in sync.listening
  /\ sync' = [syncHandleClose(sync, ws) EXCEPT !.listening = @ \ {ws},
                                               !.open = @ \ {ws}]
  /\ last' = Event("close", <<>>, "", ws, NoMsg, 0)
  /\ SyncQuiet

\* The error event of a socket
SyncError(ws) ==
  /\ ws \in sync.listening
  /\ sync' = [syncHandleClose(sync, ws) EXCEPT !.open = @ \ {ws}]
  /\ last' = Event("error", <<>>, "", ws, NoMsg, 0)
  /\ SyncQuiet

InitSync == InitWith(SyncIds, OneGame)

NextSync ==
  \/ \E p \in ids : SyncWs(p)
  \/ \E ws \in 1..MaxConnections, m \in SyncMessages : SyncMessage(ws, m)
  \/ \E ws \in 1..MaxConnections : SyncGoesAway(ws)
  \/ \E ws \in 1..MaxConnections : SyncClose(ws)
  \/ \E ws \in 1..MaxConnections : SyncError(ws)
  \/ AdvanceClock

SpecSync == InitSync /\ [][NextSync]_vars

(***************************************************************************)
(* One actor instance over its lifetime, with the interval under weak      *)
(* fairness: a running setInterval keeps firing.  The behaviour starts     *)
(* with the room a create request has just made, the instance is never     *)
(* evicted, and the firing of the interval is not one of the counted       *)
(* events.                                                                 *)
(***************************************************************************)

InitLive ==
  /\ actors = [n \in ActorNames |->
                 handleCreate(constructor(Null, [w \in {} |-> ""]),
                              "gameA", "alice", 0)]
  /\ now = 0
  /\ last = Event("create", CHOOSE n \in ActorNames : TRUE, "alice", 0, NoMsg,
                  200)
  /\ steps = 0
  /\ ids = LiveIds
  /\ games = OneGame
  /\ kv = EmptyKV
  /\ out = NoRequest
  /\ revoked = {}
  /\ track = NoTracks
  /\ sessions = NoSessions
  /\ creates = NoCreates
  /\ sync = NewSyncRoom

\* The 50 ms interval fires
TickLive(n) ==
  /\ actors[n].broadcastInterval
  /\ actors' = [actors EXCEPT ![n] = tick(@)]
  /\ last' = Event("tick", n, "", 0, NoMsg, 0)
  /\ out' = NoRequest
  /\ UNCHANGED <<now, steps, ids, games, kv, revoked, track, sessions,
                 creates, sync>>

NextLive ==
  \/ \E g \in games, p \in ids : RoomsCreate(g, p)
  \/ \E g \in games, p \in ids, c \in RequestCodes : RoomsJoin(g, p, c)
  \/ \E g \in games, p \in ids, c \in RequestCodes : RoomsWs(g, p, c)
  \/ \E n \in ActorNames, ws \in 1..MaxSockets, d \in ClientMessages(ids) :
       Message(n, ws, d)
  \/ \E n \in ActorNames, ws \in 1..MaxSockets : Close(n, ws)
  \/ \E n \in ActorNames : TickLive(n)

SpecLive ==
  /\ InitLive
  /\ [][NextLive]_vars
  /\ WF_vars(\E n \in ActorNames : TickLive(n))

(***************************************************************************)
(* Properties                                                              *)
(***************************************************************************)
Room(n)    == actors[n].roomState
HasRoom(n) == actors[n].roomState # Null
Roster(n)  == Keys(actors[n].roomState.players)

\* Position of an id in lexicographic order
IdRank(id) == CHOOSE i \in DOMAIN IdOrder : IdOrder[i] = id

\* The frames the last handler of actor n sent to socket w, in order
FramesTo(A, w) == SelectSeq(A.sent, LAMBDA m : m.ws = w)

\* The last event was a webSocketClose for the player who was host before it,
\* and the room is still there after it
HostClosed(n) ==
  /\ last'.op = "close" /\ last'.actor = n
  /\ actors[n].roomState # Null
  /\ last'.playerId = actors[n].roomState.hostId
  /\ actors'[n].roomState # Null

\* C1: in every state in which a room exists with a non-empty roster, hostId
\* is a key of the roster.
C1_HostInRoster ==
  \A n \in ActorNames :
    (HasRoom(n) /\ Room(n).players # <<>>) => Room(n).hostId \in Roster(n)

\* C2: in every state, every key of playerStates is a key of the roster.
C2_StatesInRoster ==
  \A n \in ActorNames :
    HasRoom(n) => (DOMAIN Room(n).playerStates) \subseteq Roster(n)

\* C3: once the last open socket of an actor has closed, the stored snapshot
\* 'roomState' is deleted (so the next boot finds no room).
C3_LastCloseDeletesSnapshot ==
  \A n \in ActorNames :
    (last.op = "close" /\ last.actor = n /\ DOMAIN actors[n].sockets = {})
      => actors[n].storage = Null

\* C4: after any sequence of admissions an actor holds at most one open
\* session per playerId.
C4_OneSessionPerPlayer ==
  \A n \in ActorNames :
    \A w1, w2 \in DOMAIN actors[n].sockets :
      actors[n].sockets[w1] = actors[n].sockets[w2] => w1 = w2

\* C5: a game_state or transfer_host message from a session whose playerId is
\* not the current hostId leaves the room (hostId, roster, playerStates,
\* gameState) and the stored snapshot unchanged and sends no frame.
C5_NonHostIgnored ==
  [][\A n \in ActorNames :
       ( /\ last'.op = "message" /\ last'.actor = n
         /\ last'.msg.type \in {"game_state", "transfer_host"}
         /\ actors[n].roomState # Null
         /\ last'.playerId # actors[n].roomState.hostId )
       => ( /\ actors'[n].roomState = actors[n].roomState
            /\ actors'[n].storage = actors[n].storage
            /\ actors'[n].sent = <<>> )]_vars

\* C5 witness: a non-host session has just sent game_state to a live room
C5_Witness ==
  \E n \in ActorNames :
    /\ last.op = "message" /\ last.actor = n
    /\ last.msg.type = "game_state"
    /\ HasRoom(n)
    /\ last.playerId # Room(n).hostId
    /\ last.playerId \in Roster(n)
    /\ Cardinality(DOMAIN actors[n].sockets) = 2

\* C6: when the host's session closes and the roster stays non-empty, the new
\* host is the remaining player with the smallest joinedAt and, among equal
\* joinedAt, the lexicographically smallest playerId.
C6_MigrationPicksEarliestThenLexSmallest ==
  [][\A n \in ActorNames :
       HostClosed(n) =>
         \E i \in DOMAIN actors'[n].roomState.players :
           LET ps == actors'[n].roomState.players IN
           /\ ps[i].id = actors'[n].roomState.hostId
           /\ \A j \in DOMAIN ps :
                \/ ps[i].joinedAt < ps[j].joinedAt
                \/ /\ ps[i].joinedAt = ps[j].joinedAt
                   /\ IdRank(ps[i].id) <= IdRank(ps[j].id)]_vars

\* C7: when the host's session closes in a room that stays non-empty, every
\* remaining open session receives host_changed naming the new host and then
\* player_left for the departed player, and the stored snapshot carries the
\* new hostId.
C7_HostChangedThenPlayerLeft ==
  [][\A n \in ActorNames :
       HostClosed(n) =>
         /\ \A w \in DOMAIN actors'[n].sockets :
              LET fs == FramesTo(actors'[n], w) IN
              /\ Len(fs) = 2
              /\ fs[1].frame.type = "host_changed"
              /\ fs[1].frame.hostId = actors'[n].roomState.hostId
              /\ fs[2].frame.type = "player_left"
              /\ fs[2].frame.playerId = last'.playerId
         /\ actors'[n].storage # Null
         /\ actors'[n].storage.hostId = actors'[n].roomState.hostId]_vars

\* C7 witness: the host's socket has closed, another player became host and a
\* remaining socket got the two frames
C7_Witness ==
  \E n \in ActorNames :
    /\ last.op = "close" /\ last.actor = n
    /\ HasRoom(n)
    /\ last.playerId \notin Roster(n)
    /\ last.playerId # Room(n).hostId
    /\ \E w \in DOMAIN actors[n].sockets :
         /\ Len(FramesTo(actors[n], w)) = 2
         /\ FramesTo(actors[n], w)[1].frame.type = "host_changed"

\* C8: when the instance is evicted between two handlers and re-booted, the
\* restored room equals the in-memory room before eviction (roster, hostId,
\* playerStates, gameState).
C8_SnapshotRoundTrip ==
  [][\A n \in ActorNames :
       (last'.op = "wake" /\ last'.actor = n)
         => actors'[n].roomState = actors[n].roomState]_vars

\* C9: an info, join or ws request authenticated for tenant g that succeeds
\* is served by a room created under g's gameId.
C9_TenantIsolation ==
  [][\A g \in GameIds, p \in PlayerIds, c \in RequestCodes :
       ( /\ RoomsInfo(g, p, c) \/ RoomsJoin(g, p, c) \/ RoomsWs(g, p, c)
         /\ last'.status \in {200, 101} )
       => actors[getRoomStub(c)].roomState.gameId = g]_vars

\* C10: create on an actor with no room initializes the room with the given
\* hostId, roster exactly {hostId}, empty playerStates and gameState, and
\* persists it; create on an actor that holds a room is refused (400, Room
\* already exists) and leaves the room and the snapshot unchanged.
C10_CreateInitializesOrRefuses ==
  [][\A n \in ActorNames :
       (last'.op = "create" /\ last'.actor = n) =>
         IF actors[n].roomState = Null
         THEN /\ actors'[n].resp = 200
              /\ actors'[n].roomState # Null
              /\ actors'[n].roomState.hostId = last'.playerId
              /\ Keys(actors'[n].roomState.players) = {last'.playerId}
              /\ Len(actors'[n].roomState.players) = 1
              /\ actors'[n].roomState.players[1].joinedAt = now
              /\ actors'[n].roomState.playerStates = NoStates
              /\ actors'[n].roomState.gameState = EmptyObject
              /\ actors'[n].storage = actors'[n].roomState
         ELSE /\ actors'[n].resp = 400
              /\ actors'[n].roomState = actors[n].roomState
              /\ actors'[n].storage = actors[n].storage]_vars

\* C10 witness: a create has just been refused by an actor that holds a room
\* whose roster has grown since it was created
C10_Witness ==
  \E n \in ActorNames :
    /\ last.op = "create" /\ last.actor = n
    /\ actors[n].resp = 400
    /\ HasRoom(n)
    /\ Len(Room(n).players) = 2
    /\ actors[n].storage = Room(n)

\* The frame player_joined announcing p in a roster of the given size, as it
\* appears in `sent` when delivered to socket w
JoinedFrame(w, p, count) ==
  [ws |-> w,
   frame |-> [type |-> "player_joined", playerId |-> p, playerCount |-> count]]

\* C11: an HTTP join that reaches a live room answers with the current roster;
\* with a playerId already in the roster it leaves the room, every joinedAt
\* and the snapshot unchanged and broadcasts nothing; with a playerId not in
\* the roster it adds exactly that player (joinedAt = now), persists, and
\* sends one player_joined to each session of the other players and none to
\* a session of the joiner.
C11_JoinIdempotent ==
  [][\A n \in ActorNames :
       (last'.op = "join" /\ last'.actor = n /\ HasRoom(n)) =>
         LET p == last'.playerId
             A == actors[n]
             B == actors'[n]
         IN  /\ B.resp = 200
             /\ B.body.players = B.roomState.players
             /\ IF p \in Roster(n)
                THEN /\ B.roomState = A.roomState
                     /\ B.storage = A.storage
                     /\ B.sent = <<>>
                ELSE /\ B.roomState =
                          [A.roomState EXCEPT !.players =
                             Append(@, [id |-> p, joinedAt |-> now])]
                     /\ B.storage = B.roomState
                     /\ \A w \in DOMAIN B.sockets :
                          FramesTo(B, w) =
                            IF B.sockets[w] # p
                            THEN <<JoinedFrame(w, p, Len(A.roomState.players) + 1)>>
                            ELSE <<>>]_vars

\* C12: a ws admission into a live room adds the newcomer to the roster when
\* absent and persists; the first frame on the new socket is `connected`
\* whose roster contains the newcomer, whose playerCount is the roster size
\* and whose hostId, playerStates and gameState are the current ones; after
\* it player_joined goes to the sessions of the other players and not to the
\* newcomer.
C12_ConnectedThenPlayerJoined ==
  [][\A n \in ActorNames :
       (last'.op = "ws" /\ last'.actor = n /\ last'.status = 101) =>
         LET p == last'.playerId
             server == last'.ws
             A == actors[n]
             B == actors'[n]
         IN  /\ Keys(B.roomState.players) = Roster(n) \cup {p}
             /\ p \notin Roster(n) => B.storage = B.roomState
             /\ B.sent # <<>>
             /\ B.sent[1].ws = server
             /\ LET f == B.sent[1].frame
                IN  /\ f.type = "connected"
                    /\ f.playerId = p
                    /\ p \in Keys(f.players)
                    /\ f.players = B.roomState.players
                    /\ f.playerCount = Len(B.roomState.players)
                    /\ f.hostId = B.roomState.hostId
                    /\ f.playerStates = B.roomState.playerStates
                    /\ f.gameState = B.roomState.gameState
             /\ Len(FramesTo(B, server)) = 1
             /\ \A w \in DOMAIN B.sockets \ {server} :
                  FramesTo(B, w) =
                    IF B.sockets[w] # p
                    THEN <<JoinedFrame(w, p, Len(B.roomState.players))>>
                    ELSE <<>>]_vars

\* The last event was the client frame `type` arriving on a socket of actor n
\* while the actor held a room
Received(n, type) ==
  /\ last'.op = "message" /\ last'.actor = n
  /\ last'.msg.type = type
  /\ actors[n].roomState # Null

\* Every open socket of B got exactly the frame f, and nothing else was sent
AllGot(B, f) ==
  /\ \A w \in DOMAIN B.sockets : FramesTo(B, w) = <<[ws |-> w, frame |-> f]>>
  /\ Len(B.sent) = Cardinality(DOMAIN B.sockets)

\* C13: a game_state frame from the host replaces gameState wholesale with
\* the provided state, persists the room, and sends game_state_sync with that
\* state to every open session, the sender's included.
C13_HostGameState ==
  [][\A n \in ActorNames :
       (Received(n, "game_state") /\ last'.playerId = actors[n].roomState.hostId)
       => LET B == actors'[n]
          IN  /\ B.roomState =
                   [actors[n].roomState EXCEPT !.gameState = last'.msg.state]
              /\ B.storage = B.roomState
              /\ AllGot(B, [type |-> "game_state_sync",
                            state |-> last'.msg.state])]_vars

\* C13 witness: the host has just set the game state while another player's
\* session was open, the sender got the confirmation, and the snapshot holds
\* the new state
C13_Witness ==
  \E n \in ActorNames :
    /\ last.op = "message" /\ last.actor = n /\ last.msg.type = "game_state"
    /\ HasRoom(n)
    /\ last.playerId = Room(n).hostId
    /\ Room(n).gameState = last.msg.state
    /\ actors[n].storage # Null
    /\ actors[n].storage.gameState = last.msg.state
    /\ Cardinality(DOMAIN actors[n].sockets) = 2
    /\ \E w \in DOMAIN actors[n].sockets : actors[n].sockets[w] # last.playerId
    /\ FramesTo(actors[n], last.ws) # <<>>

\* C14: transfer_host is accepted exactly when the sender is the host and
\* newHostId is in the roster; accepted, hostId becomes newHostId, the room is
\* persisted and host_changed goes to every open session; otherwise (sender
\* not host, or newHostId not in the roster) the room and the snapshot are
\* unchanged and nothing is sent.
C14_TransferHostGate ==
  [][\A n \in ActorNames :
       Received(n, "transfer_host") =>
         LET A == actors[n]
             B == actors'[n]
             q == last'.msg.newHostId
         IN  IF last'.playerId = A.roomState.hostId /\ q \in Roster(n)
             THEN /\ B.roomState = [A.roomState EXCEPT !.hostId = q]
                  /\ B.storage = B.roomState
                  /\ AllGot(B, [type |-> "host_changed", hostId |-> q])
             ELSE /\ B.roomState = A.roomState
                  /\ B.storage = A.storage
                  /\ B.sent = <<>>]_vars

\* C15: every player_state frame from player p stores the sent state in
\* playerStates[p], sets the dirty flag and sends player_state_update to the
\* sessions of the other players and none to a session of p; and no other
\* event changes playerStates[i] of a player i who stays in the roster, so
\* playerStates[i] is the last state player i sent.
C15_LastStateSent ==
  [][\A n \in ActorNames :
       /\ Received(n, "player_state") =>
            LET B == actors'[n]
                p == last'.playerId
                v == last'.msg.state
            IN  /\ p \in DOMAIN B.roomState.playerStates
                /\ B.roomState.playerStates[p] = v
                /\ B.playerStateDirty
                /\ \A w \in DOMAIN B.sockets :
                     FramesTo(B, w) =
                       IF B.sockets[w] # p
                       THEN <<[ws |-> w,
                               frame |-> [type |-> "player_state_update",
                                          playerId |-> p, state |-> v]]>>
                       ELSE <<>>
       /\ (actors[n].roomState # Null /\ actors'[n].roomState # Null) =>
            \A i \in Roster(n) \cap Keys(actors'[n].roomState.players) :
              ( /\ i \in DOMAIN actors[n].roomState.playerStates
                /\ ~(Received(n, "player_state") /\ last'.playerId = i) )
              => /\ i \in DOMAIN actors'[n].roomState.playerStates
                 /\ actors'[n].roomState.playerStates[i] =
                      actors[n].roomState.playerStates[i]]_vars

\* The last event closed a socket of actor n, and the actor held a room
\* before and holds one after
ClosedInLiveRoom(n) ==
  /\ last'.op = "close" /\ last'.actor = n
  /\ actors[n].roomState # Null
  /\ actors'[n].roomState # Null

\* C16: when a session of player p closes and the roster stays non-empty, p is
\* in neither the roster nor playerStates afterwards, the room is persisted,
\* and every remaining open session receives (last) a player_left frame for p
\* whose playerCount is the roster size after the removal.
C16_CloseRemovesPlayer ==
  [][\A n \in ActorNames :
       ClosedInLiveRoom(n) =>
         LET B == actors'[n]
             p == last'.playerId
         IN  /\ p \notin Keys(B.roomState.players)
             /\ p \notin DOMAIN B.roomState.playerStates
             /\ B.roomState.players = DeletePlayer(actors[n].roomState.players, p)
             /\ B.storage = B.roomState
             /\ last'.ws \notin DOMAIN B.sockets
             /\ \A w \in DOMAIN B.sockets :
                  LET fs == FramesTo(B, w) IN
                  /\ fs # <<>>
                  /\ fs[Len(fs)].frame =
                       [type |-> "player_left", playerId |-> p,
                        playerCount |-> Len(B.roomState.players)]
                  /\ \A k \in 1..(Len(fs) - 1) :
                       fs[k].frame.type # "player_left"]_vars

\* C16 witness: a non-host player who had sent a state has closed its session;
\* the room lives on without the player and without its state, and the
\* remaining session got player_left
C16_Witness ==
  \E n \in ActorNames :
    /\ last.op = "close" /\ last.actor = n
    /\ HasRoom(n)
    /\ last.playerId \notin Roster(n)
    /\ last.playerId \notin DOMAIN Room(n).playerStates
    /\ Room(n).playerStates # NoStates
    /\ actors[n].storage = Room(n)
    /\ \E w \in DOMAIN actors[n].sockets :
         /\ Len(FramesTo(actors[n], w)) = 1
         /\ FramesTo(actors[n], w)[1].frame.type = "player_left"
         /\ FramesTo(actors[n], w)[1].frame.playerCount = Len(Room(n).players)

\* The relayed frame of broadcast / send
Relayed(w) ==
  [ws |-> w,
   frame |-> [type |-> "message", from |-> last'.playerId,
              data |-> last'.msg.data]]

\* The handler changed nothing of the room: not the room, the snapshot, the
\* dirty flag, the timer or the set of open sockets
RoomUntouched(n) ==
  /\ actors'[n].roomState = actors[n].roomState
  /\ actors'[n].storage = actors[n].storage
  /\ actors'[n].playerStateDirty = actors[n].playerStateDirty
  /\ actors'[n].broadcastInterval = actors[n].broadcastInterval
  /\ actors'[n].sockets = actors[n].sockets

\* C17: a broadcast frame arriving on a session of player p is relayed as
\* {type: message, from: p, data} to every open session, except that the
\* sending session gets none when excludeSelf is true; no other session is
\* left out.
C17_BroadcastRelay ==
  [][\A n \in ActorNames :
       Received(n, "broadcast") =>
         \A w \in DOMAIN actors'[n].sockets :
           FramesTo(actors'[n], w) =
             IF w = last'.ws /\ last'.msg.excludeSelf
             THEN <<>>
             ELSE <<Relayed(w)>>]_vars

\* C18: a send frame naming player q is delivered as {type: message,
\* from: sender, data} to every open session tagged q and to no other
\* session, to none when q has no open session, and leaves the room as it was.
C18_SendToNamed ==
  [][\A n \in ActorNames :
       Received(n, "send") =>
         /\ \A w \in DOMAIN actors'[n].sockets :
              FramesTo(actors'[n], w) =
                IF actors'[n].sockets[w] = last'.msg.to
                THEN <<Relayed(w)>>
                ELSE <<>>
         /\ Len(actors'[n].sent) =
              Cardinality({w \in DOMAIN actors'[n].sockets :
                             actors'[n].sockets[w] = last'.msg.to})
         /\ RoomUntouched(n)]_vars

\* C18 witness: a send has just been delivered to the one session of the
\* named player while the sender's own session got nothing, and another
\* send named a player in the roster without a session
C18_Witness ==
  \E n \in ActorNames :
    /\ last.op = "message" /\ last.actor = n /\ last.msg.type = "send"
    /\ HasRoom(n)
    /\ Cardinality(DOMAIN actors[n].sockets) = 2
    /\ last.msg.to # last.playerId
    /\ Len(actors[n].sent) = 1
    /\ actors[n].sent[1].ws # last.ws
    /\ actors[n].sockets[actors[n].sent[1].ws] = last.msg.to

\* C18 witness, second case: a send named a player of the roster who has no
\* open session and nothing was delivered
C18_WitnessAbsent ==
  \E n \in ActorNames :
    /\ last.op = "message" /\ last.actor = n /\ last.msg.type = "send"
    /\ HasRoom(n)
    /\ last.msg.to \in Roster(n)
    /\ \A w \in DOMAIN actors[n].sockets : actors[n].sockets[w] # last.msg.to
    /\ actors[n].sent = <<>>

\* C19: a client frame that is malformed JSON, or whose type is none of
\* player_state, game_state, transfer_host, broadcast, send, ping, changes
\* nothing of the room, sends no frame to any session and leaves the sending
\* session open.
C19_UnknownOrMalformedDropped ==
  [][\A n \in ActorNames :
       ( /\ last'.op = "message" /\ last'.actor = n
         /\ last'.msg.type \in {"unknown", "malformed"} )
       => /\ RoomUntouched(n)
          /\ actors'[n].sent = <<>>
          /\ last'.ws \in DOMAIN actors'[n].sockets]_vars

\* The API key a request presents, in the words of the gate's contract: the
\* rest of an Authorization header that begins with `Bearer `, otherwise the
\* apiKey query parameter; <<>> when there is none
Presented(req) ==
  IF /\ req.authorization.defined
     /\ Len(req.authorization.s) >= 7
     /\ \A i \in 1..7 : req.authorization.s[i] = BearerScheme[i]
  THEN [i \in 1..(Len(req.authorization.s) - 7) |-> req.authorization.s[i + 7]]
  ELSE IF req.queryApiKey.defined THEN req.queryApiKey.s ELSE <<>>

\* The request names a player in the X-Player-ID header or the query
NamesPlayer(req) ==
  \/ req.xPlayerId.defined /\ Len(req.xPlayerId.s) > 0
  \/ req.queryPlayerId.defined /\ Len(req.queryPlayerId.s) > 0

\* The keys registered in the key/value namespace
Registered(store) == {k \in ApiKeys : ApikeyNs \o k \in DOMAIN store}

\* C20: the gate refuses a request that names no player with 400 whatever key
\* it carries; otherwise a request with no key gets 401, one whose key lacks
\* the wt_ prefix gets 401, one whose key is not registered gets 401; the
\* handler runs only for a registered key, with the gameId and projectId
\* stored for that key.
C20_AuthGateDecision ==
  [][last'.op = "auth" =>
       LET req == out'.req
           res == out'.res
           key == Presented(req)
       IN  IF ~NamesPlayer(req)
           THEN ~res.next /\ res.status = 400
           ELSE IF key = <<>>
           THEN /\ ~res.next /\ res.status = 401
                /\ res.error = "Authorization header or apiKey query param required"
           ELSE IF ~(Len(key) >= 3 /\ key[1] = "w" /\ key[2] = "t" /\ key[3] = "_")
           THEN ~res.next /\ res.status = 401 /\ res.error = "Invalid API key format"
           ELSE IF key \notin Registered(kv)
           THEN ~res.next /\ res.status = 401 /\ res.error = "Invalid API key"
           ELSE /\ res.next
                /\ res.gameId = kv[ApikeyNs \o key].json.gameId
                /\ res.projectId = kv[ApikeyNs \o key].json.projectId
                /\ Truthy(res.playerId)]_vars

\* C20 witness: two keys of different games are registered, and a request
\* that carries the second key in the query and the player in the query (a
\* WebSocket upgrade) has passed the gate bound to the second key's game
C20_Witness ==
  /\ last.op = "auth"
  /\ out.res.next
  /\ Registered(kv) = {KeyA, KeyB}
  /\ kv[ApikeyNs \o KeyA].json.gameId = <<"g", "A">>
  /\ kv[ApikeyNs \o KeyB].json.gameId = <<"g", "B">>
  /\ ~out.req.authorization.defined
  /\ ~out.req.xPlayerId.defined
  /\ out.req.queryApiKey = Str(KeyB)
  /\ out.res.gameId = <<"g", "B">>

\* The Authorization header the admin plane sends
AdminHeader == Str(BearerScheme \o INTERNAL_SECRET)

\* The key has the wt_ prefix
WellFormed(key) == Len(key) >= 3 /\ key[1] = "w" /\ key[2] = "t" /\ key[3] = "_"

BadBody(body) ==
  \/ ~body.apiKey.defined
  \/ ~WellFormed(body.apiKey.s)
  \/ Len(body.gameId) = 0
  \/ body.projectId = ""

\* C22: a put with an empty or malformed apiKey, or an empty gameId or
\* projectId, fails and leaves the registry unchanged; a put that repeats
\* the apiKey, gameId and projectId of the stored record leaves that record,
\* createdAt included, as it was.
C22_PutValidatedAndIdempotent ==
  [][\A body \in KeyBodies :
       InternalPostKeys(AdminHeader, body) =>
         IF BadBody(body)
         THEN last'.status = 400 /\ kv' = kv
         ELSE LET name == ApikeyNs \o body.apiKey.s IN
              /\ last'.status = 200
              /\ name \in DOMAIN kv'
              /\ kv'[name].json.gameId = body.gameId
              /\ kv'[name].json.projectId = body.projectId
              /\ ( /\ name \in DOMAIN kv
                   /\ kv[name].json.gameId = body.gameId
                   /\ kv[name].json.projectId = body.projectId )
                 => kv'[name] = kv[name]]_vars

\* C23: the record of a registered key never changes while the key stays
\* registered: only a delete followed by a new insert gives the key another
\* gameId, projectId or createdAt.
C23_RecordImmutable ==
  [][\A k \in Registered(kv) \cap Registered(kv') :
       kv'[ApikeyNs \o k] = kv[ApikeyNs \o k]]_vars


(***************************************************************************)
(* C24: in the saves store, a get returns the value given by the most      *)
(* recent put for that (gameId, playerId, saveKey) when no delete          *)
(* followed, and not-found otherwise; a put overwrites the earlier value;  *)
(* a delete of an absent key succeeds and changes nothing.  Stated per     *)
(* step: right after an accepted put of JSON data, a get of the same       *)
(* triple answers 200 with that data, whatever was stored before; right    *)
(* after a delete, a get of that triple answers 404, the delete answered   *)
(* 200, and when the key was absent the namespace is unchanged.            *)
(***************************************************************************)
GetAfter(req, saveKey) ==
  savesGet(kv', out'.res.gameId, out'.res.playerId.s, saveKey)

C24_GetReturnsLastPut ==
  [][/\ \A req \in SaveRequests, k \in SaveKeys, text \in SaveTexts :
          (SavesPost(req, k, text) /\ out'.res.next /\ text.valid)
            => /\ out'.reply.status = 200
               /\ GetAfter(req, k).status = 200
               /\ GetAfter(req, k).body = [key |-> k, data |-> text.json]
     /\ \A req \in SaveRequests, k \in SaveKeys :
          (SavesDelete(req, k) /\ out'.res.next)
            => /\ out'.reply.status = 200
               /\ GetAfter(req, k).status = 404
               /\ buildKey(out'.res.gameId, out'.res.playerId.s, k)
                    \notin DOMAIN kv => kv' = kv]_vars

(***************************************************************************)
(* C25: saves are scoped by (gameId, playerId).  A put or delete made for  *)
(* one pair changes no get and no list of any other pair, and the list of  *)
(* the acting pair is exactly the save keys put and not deleted, keys      *)
(* that contain ':' included: a put adds its key to the list, a delete     *)
(* takes its key out, and nothing else in the list changes.                *)
(***************************************************************************)
ListOf(store, gameId, playerId) == savesList(store, gameId, playerId).body.keys

SamePairView(gameId, playerId) ==
  /\ ListOf(kv', gameId, playerId) = ListOf(kv, gameId, playerId)
  /\ \A k \in SaveKeys :
       savesGet(kv', gameId, playerId, k).body
         = savesGet(kv, gameId, playerId, k).body

OtherPairsUntouched ==
  \A g \in SaveGameIds, p \in SavePlayerIds :
    <<g, p>> # <<out'.res.gameId, out'.res.playerId.s>> => SamePairView(g, p)

C25_ScopedByGameAndPlayer ==
  [][/\ \A req \in SaveRequests, k \in SaveKeys, text \in SaveTexts :
          (SavesPost(req, k, text) /\ out'.res.next /\ text.valid)
            => /\ OtherPairsUntouched
               /\ ListOf(kv', out'.res.gameId, out'.res.playerId.s)
                    = ListOf(kv, out'.res.gameId, out'.res.playerId.s) \cup {k}
     /\ \A req \in SaveRequests, k \in SaveKeys :
          (SavesDelete(req, k) /\ out'.res.next)
            => /\ OtherPairsUntouched
               /\ ListOf(kv', out'.res.gameId, out'.res.playerId.s)
                    = ListOf(kv, out'.res.gameId, out'.res.playerId.s) \ {k}]_vars

(***************************************************************************)
(* C26: prefix discipline in the shared namespace.  No saves operation,    *)
(* for any registered gameId and any playerId and saveKey the client       *)
(* asserts, creates, overwrites or deletes a name of the apikey:, stats:,  *)
(* project: or subdomain: families; and no registry write changes what a   *)
(* saves get or list returns.                                              *)
(***************************************************************************)
FamilyPrefixes ==
  {ApikeyNs,
   <<"s", "t", "a", "t", "s", ":">>,
   <<"p", "r", "o", "j", "e", "c", "t", ":">>,
   <<"s", "u", "b", "d", "o", "m", "a", "i", "n", ":">>}

InFamily(name) == \E prefix \in FamilyPrefixes : startsWith(name, prefix)

FamiliesUntouched ==
  \A name \in DOMAIN kv \cup DOMAIN kv' :
    InFamily(name) => /\ name \in DOMAIN kv
                      /\ name \in DOMAIN kv'
                      /\ kv'[name] = kv[name]

C26_PrefixDiscipline ==
  [][/\ last'.op \in {"savesList", "savesGet", "savesPost", "savesDelete"}
          => FamiliesUntouched
     /\ last'.op = "postKeys"
          => \A g \in SaveGameIds, p \in SavePlayerIds : SamePairView(g, p)]_vars

(***************************************************************************)
(* C27: under concurrent session_start and session_end the online counter  *)
(* of a game is never below 0, and when every session_end follows a        *)
(* session_start of its player it equals the number of starts not yet      *)
(* matched by an end, once the requests in flight have been answered.      *)
(***************************************************************************)
RECURSIVE SumOpen(_)
SumOpen(P) ==
  IF P = {} THEN 0
  ELSE LET p == CHOOSE q \in P : TRUE
       IN  sessions.open[p] + SumOpen(P \ {p})

AllAnswered == \A i \in TrackSlots : track[i].pc = "idle"

\* The counters GET /v1/stats reads
Counters ==
  IF statsKey(TrackGame) \in DOMAIN kv
  THEN kvGet(kv, statsKey(TrackGame))
  ELSE ZeroStats

C27_OnlineCountsOpenSessions ==
  /\ Counters.online >= 0
  /\ (AllAnswered /\ sessions.paired)
       => Counters.online = SumOpen(TrackPlayers)

(***************************************************************************)
(* C28: under interleaved session_start requests, every distinct player    *)
(* that started a session is in the daily set of the day exactly once and  *)
(* the counter `today` is the size of that set, once the requests in       *)
(* flight have been answered.                                              *)
(***************************************************************************)
DailySet == getOrEmpty(kv, dailyKey(TrackGame, now))

C28_DailyUniques ==
  AllAnswered =>
    /\ \A p \in sessions.started :
         Cardinality({i \in 1..Len(DailySet) : DailySet[i] = p}) = 1
    /\ \A i \in 1..Len(DailySet) : DailySet[i] \in sessions.started
    /\ Counters.today = Len(DailySet)

(***************************************************************************)
(* C29: room codes are case-insensitive.  An info, join or ws request      *)
(* whose code is any case variant of a room's code is routed to the actor  *)
(* named by the canonical uppercase code, and is the very step the request *)
(* with the canonical code takes.                                          *)
(***************************************************************************)
\* c and code differ at most in the case of their letters
CaseVariant(c, code) ==
  /\ Len(c) = Len(code)
  /\ \A i \in 1..Len(c) :
       \/ c[i] = code[i]
       \/ \E j \in 1..Len(LowerCase) :
            {c[i], code[i]} = {LowerCase[j], UpperCase[j]}

C29_CodesCaseInsensitive ==
  [][\A code \in GeneratedCodes :
       ( /\ last'.op \in {"info", "join", "ws"}
         /\ CaseVariant(last'.code, code) )
       => /\ last'.actor = code
          /\ \A g \in games, p \in ids :
               /\ RoomsInfo(g, p, last'.code)
                    => actors' = [actors EXCEPT ![code] = handleInfo(@)]
               /\ RoomsJoin(g, p, last'.code)
                    => actors' = [actors EXCEPT
                                    ![code] = handleJoin(@, p, now)]
               /\ RoomsWs(g, p, last'.code)
                    => actors' = [actors EXCEPT
                                    ![code] = handleWebSocket(@, p, last'.ws,
                                                              now)]]_vars

\* C29 witness: a socket was admitted to a live room by a request that
\* spelled the room's code in mixed case.
C29_Witness ==
  \E code \in GeneratedCodes :
    /\ last.op = "ws" /\ last.status = 101
    /\ last.code # code
    /\ CaseVariant(last.code, code)
    /\ last.actor = code
    /\ HasRoom(code)
    /\ last.ws \in DOMAIN actors[code].sockets

(***************************************************************************)
(* C30: a tick that finds the dirty flag set in a live room sends exactly  *)
(* one players_sync frame with the entire current playerStates map to      *)
(* every open session and clears the flag, changing nothing else; a tick   *)
(* that finds the flag clear, or no room, sends nothing and changes        *)
(* nothing.                                                                *)
(***************************************************************************)
C30_TickSyncsWhenDirty ==
  [][\A n \in ActorNames :
       (last'.op = "tick" /\ last'.actor = n) =>
         IF actors[n].playerStateDirty /\ actors[n].roomState # Null
         THEN /\ AllGot(actors'[n],
                   [type |-> "players_sync",
                    players |-> actors[n].roomState.playerStates])
              /\ ~actors'[n].playerStateDirty
              /\ actors'[n].roomState = actors[n].roomState
              /\ actors'[n].storage = actors[n].storage
              /\ actors'[n].sockets = actors[n].sockets
              /\ actors'[n].broadcastInterval = actors[n].broadcastInterval
         ELSE /\ actors'[n].sent = <<>>
              /\ RoomUntouched(n)]_vars

\* C30 witness: a tick has just sent players_sync with a non-empty
\* playerStates map to two open sessions and cleared the flag.
C30_Witness ==
  \E n \in ActorNames :
    /\ last.op = "tick" /\ last.actor = n
    /\ HasRoom(n)
    /\ Cardinality(DOMAIN actors[n].sockets) = 2
    /\ Len(actors[n].sent) = 2
    /\ \A i \in 1..2 :
         /\ actors[n].sent[i].frame.type = "players_sync"
         /\ actors[n].sent[i].frame.players = actors[n].roomState.playerStates
    /\ DOMAIN actors[n].roomState.playerStates # {}
    /\ ~actors[n].playerStateDirty

\* C30 witness: a tick found the flag clear in a live room with an open
\* session and sent nothing.
C30_WitnessClear ==
  \E n \in ActorNames :
    /\ last.op = "tick" /\ last.actor = n
    /\ HasRoom(n)
    /\ DOMAIN actors[n].sockets # {}
    /\ actors[n].sent = <<>>
    /\ ~actors[n].playerStateDirty

(***************************************************************************)
(* C31: in every live room, once a player_state message has set the dirty  *)
(* flag, a later tick sends players_sync to the open sessions, unless the  *)
(* room empties first; this holds for every room of the actor's lifetime,  *)
(* a room created on the instance after an earlier room emptied included.  *)
(***************************************************************************)
\* The last event was a tick that sent players_sync to every open session
SyncSent(n) ==
  /\ last.op = "tick" /\ last.actor = n
  /\ \A w \in DOMAIN actors[n].sockets :
       \E i \in 1..Len(actors[n].sent) :
         /\ actors[n].sent[i].ws = w
         /\ actors[n].sent[i].frame.type = "players_sync"

C31_DirtyLeadsToSync ==
  \A n \in ActorNames :
    ( /\ last.op = "message" /\ last.actor = n
      /\ last.msg.type = "player_state"
      /\ HasRoom(n) /\ actors[n].playerStateDirty )
      ~> (SyncSent(n) \/ ~HasRoom(n))


\* C32: of the create requests that are inside handleCreate of one actor
\* at the same time, at most one is answered with success, and the room's
\* hostId and roster are those of the request that succeeded.
Succeeded == {i \in CreateSlots : creates[i].pc = "done" /\ creates[i].resp = 200}

C32_OneCreateWins ==
  /\ Cardinality(Succeeded) <= 1
  /\ \A i \in Succeeded :
       /\ HasRoom(CreateActor)
       /\ Room(CreateActor).hostId = creates[i].hostId
       /\ Roster(CreateActor) = {creates[i].hostId}


C36_OpenSessionsInRoster ==
  \A n \in ActorNames :
    HasRoom(n) =>
      \A w \in DOMAIN actors[n].sockets : actors[n].sockets[w] \in Roster(n)

\* C37: whenever the actor holds no room, no WebSocket session is open on it.
C37_NoRoomNoSession ==
  \A n \in ActorNames :
    ~HasRoom(n) => DOMAIN actors[n].sockets = {}


C35_SessionEventsReachStats ==
  [][\A n \in ActorNames :
       /\ (last'.op = "ws" /\ last'.actor = n /\ last'.status = 101)
            => \/ \E i \in TrackSlots : /\ track'[i] # track[i]
                                        /\ track'[i].event = "session_start"
               \/ kv' # kv
       /\ (last'.op = "close" /\ last'.actor = n)
            => \/ \E i \in TrackSlots : /\ track'[i] # track[i]
                                        /\ track'[i].event = "session_end"
               \/ kv' # kv]_vars


\* What the handler of the event last' does to actor n when its write succeeds
Unfailed(n) ==
  CASE last'.op = "create" ->
         handleCreate(actors[n], CHOOSE g \in games : TRUE, last'.playerId, now)
    [] last'.op = "join" -> handleJoin(actors[n], last'.playerId, now)
    [] last'.op = "ws" ->
         handleWebSocket(actors[n], last'.playerId, last'.ws, now)
    [] last'.op = "message" ->
         webSocketMessage(actors[n], last'.ws, last'.msg, now)
    [] last'.op = "close" -> webSocketClose(actors[n], last'.ws)

\* C34: when the snapshot write of a handler (create, join, admission,
\* game_state, transfer_host, close) fails, the in-memory mutation stands,
\* the room and the sessions stay, and the handler's broadcasts are issued
\* as if the write had succeeded: only the stored snapshot stays behind.
C34_RejectedWriteOnlyLosesSnapshot ==
  [][\A n \in ActorNames :
       (last'.status = PutRejected /\ last'.actor = n)
       => /\ actors'[n].roomState = Unfailed(n).roomState
          /\ actors'[n].sockets = Unfailed(n).sockets
          /\ actors'[n].sent = Unfailed(n).sent]_vars


\* The sockets of `players` held for playerId p
ConnectionsOf(S, p) == {w \in DOMAIN S.players : S.players[w].playerId = p}

Replaced == [code |-> 1000, reason |-> "Replaced by new connection"]

\* C39: when a playerId that has a connection in a SyncRoom opens a new
\* socket, every old socket of the playerId is closed with code 1000 and
\* reason 'Replaced by new connection' and is out of `players`, the new
\* socket is the playerId's one entry, and `players` never holds more than
\* one connection for a playerId.
C39_SyncReplacement ==
  [][/\ last'.op = "ws" =>
          /\ \A w \in ConnectionsOf(sync, last'.playerId) :
               /\ w \notin DOMAIN sync'.players
               /\ w \in DOMAIN sync'.closes
               /\ sync'.closes[w] = Replaced
               /\ w \notin sync'.open
          /\ ConnectionsOf(sync', last'.playerId) = {last'.ws}
          /\ last'.ws \notin DOMAIN sync.players
          /\ \A w \in DOMAIN sync.players :
               sync.players[w].playerId # last'.playerId
               => /\ w \in DOMAIN sync'.players
                  /\ sync'.players[w] = sync.players[w]
     /\ \A p \in ids : Cardinality(ConnectionsOf(sync', p)) <= 1]_vars

\* C39 witness: a socket was opened for a playerId while another player is
\* connected; the playerId's earlier socket is closed as replaced and only
\* the new one is in `players`
C39_Witness ==
  /\ last.op = "ws"
  /\ \E w \in DOMAIN sync.closes :
       /\ sync.closes[w] = Replaced
       /\ w \notin DOMAIN sync.players
       /\ w \in sync.listening
  /\ ConnectionsOf(sync, last.playerId) = {last.ws}
  /\ Cardinality(DOMAIN sync.players) = 2

\* C40: a message, close or error event on a socket that was replaced is a
\* no-op: no frame is sent, `players` (the replacing connection included)
\* and `playerStates` are unchanged.
C40_ReplacedSocketEventsIgnored ==
  [][( /\ last'.op \in {"message", "close", "error"}
       /\ last'.ws \in DOMAIN sync.closes )
     => /\ sync'.sent = <<>>
        /\ sync'.players = sync.players
        /\ sync'.playerStates = sync.playerStates]_vars

\* C40 witness: a state frame has just arrived on a replaced socket while
\* the replacing connection holds a state of the player
C40_Witness ==
  /\ last.op = "message"
  /\ last.msg.type = "state"
  /\ last.ws \in DOMAIN sync.closes
  /\ \E w \in DOMAIN sync.players :
       /\ w > last.ws
       /\ sync.players[w].playerId \in DOMAIN sync.playerStates
       /\ sync.players[w].state # EmptyObject

\* C40 witness: the close event of a replaced socket has been delivered and
\* the replacing connection is in place
C40_WitnessClose ==
  /\ last.op = "close"
  /\ last.ws \in DOMAIN sync.closes
  /\ last.ws \notin sync.listening
  /\ DOMAIN sync.players # {}

====
